---- MODULE Spec2Model ----
(***************************************************************************)
(* The BPM analyser of rust-bpm-analyzer as a state machine.               *)
(*                                                                         *)
(* The repository holds two versions of the analyser:                      *)
(*   "current"  src/src/core_bpm/analyzer.rs  (fine/coarse/raw buffers,    *)
(*              noise gate, aubio cross-validation, history of 3)          *)
(*   "legacy"   src/core_bpm/analyzer.rs      (fine/coarse buffers,        *)
(*              adaptive gate, reference lock on drops, history of 5)      *)
(* A behaviour runs one of them (variable version); both share the         *)
(* variables that both sources declare.                                    *)
(*                                                                         *)
(* Numbers.  Tempi are in tenths of a BPM (the code rounds to 0.1),        *)
(* confidences in tenths, energies in thousandths, time in seconds.        *)
(* Each call of process reads a clock one second later than the call       *)
(* before; Wait lets more time pass between two calls.                     *)
(* Sample values are abstracted to two classes: Zero is the float 0.0,     *)
(* NonZero a value that is not known to be zero.  A quantity computed only *)
(* from zeros is zero (filter at rest, mean, square, absolute value);      *)
(* every other numeric outcome of the signal path (levels, energies,       *)
(* correlations, lags) is an input of the process action, drawn from the   *)
(* set Oracles, so that all outcomes the arithmetic can produce on such a  *)
(* window are explored.                                                    *)
(*                                                                         *)
(* Two specifications run the same actions on different inputs: Spec       *)
(* (full batches, every outcome of the signal path, idle times) for the    *)
(* smoother, SpecInput (batches of every length, a signal path that yields *)
(* an estimate whenever the window allows it) for the buffers.             *)
(***************************************************************************)
EXTENDS Integers, Sequences, FiniteSets, TLC

VARIABLES
    version,              \* which source runs: "current" or "legacy"
    clock,                \* the monotonic clock (Instant::now()), in seconds
    fine_buffer,          \* fine_config.buffer / fine_buffer
    coarse_buffer,        \* coarse_config.buffer / coarse_buffer
    raw_buffer,           \* raw_config.buffer (current only)
    input_filter,         \* biquad chain state: Rest or Excited
    history,              \* VecDeque<BpmHistoryEntry>
    last_detection_time,  \* legacy only
    reference_bpm,        \* legacy only
    average_energy,       \* legacy only, in 1/60 thousandths
    result,               \* what the last call of process returned
    returned_at,          \* where the last call of process returned
    total_samples,        \* number of input samples pushed so far (capped)
    zero_input,           \* every batch since construction was all zeros
    zero_since_accept,    \* every batch since the last accepted estimate was all zeros
    drop_accepted,        \* some accepted estimate so far was a drop
    args,                 \* arguments of a function of the analyser called on its own
    ret,                  \* what that function returned
    tempo,                \* LinkManager: tempo of the Link session, in hundredths of a BPM
    last_sync_time,       \* LinkManager::last_sync_time
    downbeat,             \* LinkManager: the last downbeat request committed to the session
    queue,                \* the mpsc channel from the capture thread to the consumer
    new_samples_accumulator, \* the consumer's accumulator
    analyzer_rate,        \* sample rate the consumer's analyser was constructed with
    stream_rate,          \* rate of the last SampleRateChanged the consumer handled
    resets,               \* number of Reset messages the consumer handled
    batch,                \* the last batch the consumer passed to process
    current_hop_size,     \* the consumer's current_hop_size
    analysis_enabled,     \* the consumer's analysis_enabled
    streams,              \* number of streams the capture thread has started
    discarded,            \* some Reset found samples in the accumulator
    control,              \* the mpsc channel of ControlMessage to the capture worker
    worker,               \* the AudioWorker thread: position, streams, crash_timestamps
    capture               \* the AudioCapture that owns the worker thread

\* the analyser and the observations made of it
analyser_vars == <<version, fine_buffer, coarse_buffer, raw_buffer, input_filter,
                   history, last_detection_time, reference_bpm, average_energy, result,
                   returned_at, total_samples, zero_input, zero_since_accept,
                   drop_accepted>>
\* a function called on its own
function_vars == <<args, ret>>
\* the LinkManager
link_vars == <<tempo, last_sync_time, downbeat>>
\* the consumer loop of the embedders and its channel
consumer_vars == <<queue, new_samples_accumulator, analyzer_rate, stream_rate, resets,
                   batch, current_hop_size, analysis_enabled, streams, discarded>>

\* the capture worker, its control channel and its owner
worker_vars == <<control, worker, capture>>

vars == <<clock, analyser_vars, function_vars, link_vars, consumer_vars, worker_vars>>

\* what the analyser leaves alone
others == <<function_vars, link_vars, consumer_vars, worker_vars>>

----------------------------------------------------------------------------
\* Bounds of the model

\* longest batch handed to process, in samples
MaxBatch == 3
\* the clock stops the model at this reading
MaxClock == 13
\* crate::platform::TARGET_SAMPLE_RATE, the sample rate the embedders construct
\* their first analyser with, in samples of the consumer scenarios per second
TARGET_SAMPLE_RATE == 4
\* capacity of the fine and raw buffers of the current analyser
\* (fine_rate * window_duration, scaled down)
FineCapacity == 4
\* decimation from fine to coarse (22 in the current source, 22 or 16 in the
\* legacy source), scaled down
coarse_step == 2
\* aubio hop size in samples (a power of two near 25 ms in the source), scaled down
aubio_hop_s == 2

----------------------------------------------------------------------------
\* Program constants

\* decimation from input to fine for sample_rate >= 44100 (current)
fine_step == 2
\* decimation from input to fine for sample_rate < 44100 (legacy)
legacy_fine_step == 2
\* history depth of the current analyser
HistoryDepth == 3
\* history depth of the legacy analyser
LegacyHistoryDepth == 5
\* seconds of silence after which the smoother state is cleared
SilenceLimit == 10
\* tempo of a new Link session, 120.0 BPM, in hundredths
DefaultTempo == 12000
\* tempo range of the legacy search, 60 to 310 BPM, in tenths
min_bpm == 600
max_bpm == 3100

\* the two classes of sample values
Zero == "Zero"
NonZero == "NonZero"

Sample == {Zero, NonZero}
Rest == "Rest"
Excited == "Excited"
None == [option |-> "None"]

Min(a, b) == IF a < b THEN a ELSE b
Max(a, b) == IF a > b THEN a ELSE b

\* a batch is all zeros or holds samples of unknown value
Batches == {[i \in 1..n |-> v] : n \in 0..MaxBatch, v \in Sample}

----------------------------------------------------------------------------
\* Capacities (SamplingConfig::new, BpmAnalyzer::new)

\* (fine_rate / coarse_step * window_duration) as usize
CoarseCapacity == FineCapacity \div coarse_step
RawCapacity == FineCapacity
\* the legacy window is 4 s, twice the default window of the current analyser
LegacyFineCapacity == 2 * FineCapacity
LegacyCoarseCapacity == LegacyFineCapacity \div coarse_step
\* (coarse_rate * 2.0) as usize: two of the four seconds
LegacyCoarseThreshold == LegacyCoarseCapacity \div 2
\* total_samples counts up to the input that fills every buffer, and one more
MaxTotal ==
    Max(LegacyFineCapacity * legacy_fine_step,
        LegacyCoarseCapacity * legacy_fine_step * coarse_step) + 1

----------------------------------------------------------------------------
\* Arithmetic of the abstract sample domain

AllZero(s) == \A i \in 1..Len(s) : s[i] = Zero

\* a faulty mean, which finds a level in silence
NoisyMean(chunk) == NonZero

\* sum / len of a non-empty chunk
Mean(chunk) == IF AllZero(chunk) THEN Zero ELSE NonZero

\* a faulty chunking, which loses the incomplete last chunk
WholeChunks(s, step) ==
    [k \in 1..(Len(s) \div step) |-> SubSeq(s, (k - 1) * step + 1, k * step)]

\* samples.chunks(step)
Chunks(s, step) ==
    [k \in 1..((Len(s) + step - 1) \div step) |->
        SubSeq(s, (k - 1) * step + 1, Min(k * step, Len(s)))]

\* the filter chain run over a prefix of the batch: at rest on zeros it stays at
\* rest, any other input leaves it excited
FilterAfter(z, s) == IF z = Rest /\ AllZero(s) THEN Rest ELSE Excited

\* |input_filter.process(x)| for each sample of the batch
Rectified(z, s) ==
    [i \in 1..Len(s) |-> IF FilterAfter(z, SubSeq(s, 1, i)) = Rest THEN Zero ELSE NonZero]

\* a faulty push loop, which never drops the oldest
ExtendAll(buffer, capacity, output) == buffer \o output

\* the push loop of update_buffer: drop the oldest when full, then append
RECURSIVE PushAll(_, _, _)
PushAll(buffer, capacity, output) ==
    IF output = <<>> THEN buffer
    ELSE LET kept == IF Len(buffer) >= capacity /\ buffer # <<>>
                     THEN Tail(buffer) ELSE buffer
         IN  PushAll(Append(kept, Head(output)), capacity, Tail(output))

\* output of update_buffer: one transformed value per chunk
Decimate(samples, step) ==
    LET c == Chunks(samples, step) IN [k \in 1..Len(c) |-> Mean(c[k])]

\* a faulty update, which leaves the buffer as it was
SkipUpdate(buffer, capacity, samples, step) == buffer

\* SamplingConfig::update_buffer
update_buffer(buffer, capacity, samples, step) ==
    PushAll(buffer, capacity, Decimate(samples, step))

----------------------------------------------------------------------------
\* Smoothing helpers

RECURSIVE Insert(_, _)
Insert(x, sorted) ==
    IF sorted = <<>> THEN <<x>>
    ELSE IF x < Head(sorted) THEN <<x>> \o sorted
    ELSE <<Head(sorted)>> \o Insert(x, Tail(sorted))

RECURSIVE Sorted(_)
Sorted(s) == IF s = <<>> THEN <<>> ELSE Insert(Head(s), Sorted(Tail(s)))

\* a faulty smoothing, which returns the estimate just pushed
Latest(s) == s[Len(s)]

\* sorted[len / 2]
Median(s) == Sorted(s)[(Len(s) \div 2) + 1]

RECURSIVE Sum(_)
Sum(s) == IF s = <<>> THEN 0 ELSE Head(s) + Sum(Tail(s))

Bpms(h) == [i \in 1..Len(h) |-> h[i].bpm]
Energies(h) == [i \in 1..Len(h) |-> h[i].energy]

\* a faulty history push, which never evicts
AppendOnly(h, depth, entry) == Append(h, entry)

\* history push with eviction of the oldest
PushHistory(h, depth, entry) ==
    Append(IF Len(h) >= depth THEN Tail(h) ELSE h, entry)


----------------------------------------------------------------------------
\* Outcomes of the signal path.  A call that gets past the buffer checks ends
\* at one of the numeric gates (stage) or yields an estimate.

\* a faulty window, as wide above the multiple as below
SymmetricValid(bpm, aubio_bpm) ==
    \E mult \in 1..5 : bpm >= aubio_bpm * mult - 150 /\ bpm <= aubio_bpm * mult + 150

\* [m * T - 15, m * T + 5] for m in 1..5
CrossValid(bpm, aubio_bpm) ==
    \E mult \in 1..5 : bpm >= aubio_bpm * mult - 150 /\ bpm <= aubio_bpm * mult + 50

\* current analyser: an estimate is a drop when confidence > 0.6 and check_drop
\* finds the energy rise
Estimates ==
    { [bpm |-> 1200, confidence |-> 7, energy_rise |-> TRUE],
      [bpm |-> 1200, confidence |-> 7, energy_rise |-> FALSE],
      [bpm |-> 1200, confidence |-> 5, energy_rise |-> TRUE] }

\* what aubio reports: nothing, a tempo that no multiple brings near 120, a
\* tempo next to 120
AubioBpms == {0, 1000, 1250}

\* current analyser: raw level below 0.005, coarse energy_mean <= 0.001, coarse
\* search failed, fine search failed, or an estimate with what aubio reports
Oracles ==
    [stage : {"raw_level", "energy", "coarse", "fine"}]
    \cup [stage : {"estimate"}, est : Estimates, aubio_bpm : AubioBpms]

\* the signal path finds a drop whenever the window lets it
EagerOracles ==
    { [stage |-> "estimate", aubio_bpm |-> 0,
       est |-> [bpm |-> 1200, confidence |-> 7, energy_rise |-> TRUE]] }

\* legacy analyser: coarse search failed, fine noise gate, fine search failed,
\* or an estimate
LegacyEstimates ==
    { [bpm |-> 1200, energy |-> 50, is_drop |-> TRUE],
      [bpm |-> 1200, energy |-> 50, is_drop |-> FALSE],
      [bpm |-> 1500, energy |-> 50, is_drop |-> FALSE],
      [bpm |-> 1200, energy |-> 20, is_drop |-> FALSE] }

LegacyOracles ==
    [stage : {"coarse", "gate", "fine"}]
    \cup [stage : {"estimate"}, est : LegacyEstimates]

LegacyEagerOracles ==
    { [stage |-> "estimate", est |-> [bpm |-> 1200, energy |-> 50, is_drop |-> TRUE]] }

\* batches of the smoother scenarios: a full batch of silence, a full batch of
\* sound
Frames == {[i \in 1..MaxBatch |-> v] : v \in Sample}

----------------------------------------------------------------------------
\* no function is being called on its own
Idle == [function |-> "none"]

FunctionInit == args = Idle /\ ret = Idle

\* LinkManager::new: a session at 120 BPM, no downbeat requested
NoDownbeat == [requested |-> FALSE]

LinkInit ==
    /\ tempo = DefaultTempo
    /\ last_sync_time = 0
    /\ downbeat = NoDownbeat

\* the consumer before its loop: an empty channel, an empty accumulator, an
\* analyser constructed with TARGET_SAMPLE_RATE
NoBatch == [samples |-> <<>>, rate |-> 0]

ConsumerInit ==
    /\ queue = <<>>
    /\ new_samples_accumulator = <<>>
    /\ analyzer_rate = TARGET_SAMPLE_RATE
    /\ stream_rate = TARGET_SAMPLE_RATE
    /\ resets = 0
    /\ batch = NoBatch
    /\ current_hop_size = TARGET_SAMPLE_RATE \div 2
    /\ analysis_enabled = FALSE
    /\ streams = 0
    /\ discarded = FALSE

\* BpmAnalyzer::new
AnalyserInit ==
    /\ version \in {"current", "legacy"}
    /\ clock = 0
    /\ fine_buffer = <<>>
    /\ coarse_buffer = <<>>
    /\ raw_buffer = <<>>
    /\ input_filter = Rest
    /\ history = <<>>
    /\ last_detection_time = 0
    /\ reference_bpm = 0
    /\ average_energy = 0
    /\ result = None
    /\ returned_at = "start"
    /\ total_samples = 0
    /\ zero_input = TRUE
    /\ zero_since_accept = TRUE
    /\ drop_accepted = FALSE

\* AudioWorker::new: no failure recorded, about to initialise its first
\* stream. live is the set of streams whose callbacks can run, failures the
\* record of every failure time, kept for the properties.
NewWorker ==
    [pc |-> "initialize", steps |-> 0, live |-> {}, error_count |-> 0,
     crash_timestamps |-> <<>>, failures |-> <<>>]

\* AudioCapture::new: a fresh control channel and the worker thread spawned;
\* failures counts the failures that the scenario has let happen
WorkerInit ==
    /\ control = <<>>
    /\ worker = NewWorker
    /\ capture = [pc |-> "running", workers |-> 1, failures |-> 0]

Init == AnalyserInit /\ FunctionInit /\ LinkInit /\ ConsumerInit /\ WorkerInit

\* what every call does, whatever it returns: the clock has advanced, the
\* input counters follow the batch
Called(new_samples) ==
    /\ clock < MaxClock
    /\ clock' = clock + 1
    /\ input_filter' = FilterAfter(input_filter, new_samples)
    /\ total_samples' = Min(total_samples + Len(new_samples), MaxTotal)
    /\ zero_input' = (zero_input /\ AllZero(new_samples))
    /\ UNCHANGED version

\* a return without an estimate at the given place, leaving history h
NoEstimate(new_samples, place, r, h) ==
    /\ result' = r
    /\ returned_at' = place
    /\ history' = h
    /\ zero_since_accept' = (zero_since_accept /\ AllZero(new_samples))
    /\ drop_accepted' = drop_accepted

\* the return at the end of process, with estimate r and history h
Accept(r, h) ==
    /\ result' = r
    /\ returned_at' = "end"
    /\ history' = h
    /\ zero_since_accept' = TRUE
    /\ drop_accepted' = (drop_accepted \/ r.is_drop)

----------------------------------------------------------------------------
\* The smoother

\* a faulty silence test, which never finds the analyser idle
NeverElapsed(now, last) == FALSE

\* now.duration_since(last).as_secs_f32() > 10.0
SilenceElapsed(now, last) == now - last > SilenceLimit

\* a faulty rejection, which returns after the history update
PushedFirst(cleared, pushed) == pushed

\* the history a rejected call leaves: the return comes before the history
\* update and after the silence reset
RejectedHistory(cleared, pushed) == cleared

\* a faulty result, which always carries a beat offset
OffsetAlways(is_drop) == "Some"

\* beat_offset of the result: Some(last beat of aubio) for a drop, else None
BeatOffset(is_drop) == IF is_drop THEN "Some" ELSE "None"

\* BpmAnalyzer::process of the current analyser
process(new_samples, o) ==
    LET now == clock + 1
        scratch_processing == Decimate(Rectified(input_filter, new_samples), fine_step)
        fine == PushAll(fine_buffer, FineCapacity, scratch_processing)
        coarse == update_buffer(coarse_buffer, CoarseCapacity, scratch_processing, coarse_step)
        raw == update_buffer(raw_buffer, RawCapacity, new_samples, fine_step)
        \* the returns of the signal path
        failed ==
            \/ AllZero(raw) \/ o.stage = "raw_level"
            \/ AllZero(coarse) \/ o.stage = "energy"
            \/ o.stage = "coarse"
            \/ AllZero(fine) \/ o.stage = "fine"
        bpm == o.est.bpm
        is_drop == o.est.confidence > 6 /\ o.est.energy_rise
        cleared == IF /\ history # <<>>
                      /\ SilenceElapsed(now, history[Len(history)].timestamp)
                   THEN <<>> ELSE history
        aubio_bpm == IF Len(new_samples) >= aubio_hop_s THEN o.aubio_bpm ELSE 0
        pushed == PushHistory(cleared, HistoryDepth, [bpm |-> bpm, timestamp |-> now])
    IN  /\ version = "current"
        /\ Called(new_samples)
        /\ fine_buffer' = fine
        /\ coarse_buffer' = coarse
        /\ raw_buffer' = raw
        /\ IF Len(coarse) < CoarseCapacity
           THEN NoEstimate(new_samples, "buffer", None, history)
           ELSE IF failed
           THEN NoEstimate(new_samples, "signal", None, history)
           ELSE IF aubio_bpm # 0 /\ ~CrossValid(bpm, aubio_bpm)
           THEN NoEstimate(new_samples, "smoother", None, RejectedHistory(cleared, pushed))
           ELSE Accept([bpm |-> Median(Bpms(pushed)), is_drop |-> is_drop,
                        confidence |-> o.est.confidence,
                        beat_offset |-> BeatOffset(is_drop)],
                       pushed)
        /\ UNCHANGED <<last_detection_time, reference_bpm, average_energy>>

\* harmonic coherence of a non-drop estimate with the reference
Coherent(raw_bpm, ref) ==
    LET d(x) == IF x < 0 THEN -x ELSE x
        is_close == 10 * d(raw_bpm - ref) <= ref
        is_double == 20 * d(raw_bpm - 2 * ref) <= ref
        is_half == 5 * d(2 * raw_bpm - ref) <= 2 * ref
        is_triple == 30 * d(raw_bpm - 3 * ref) <= ref
    IN  is_close \/ is_double \/ is_half \/ is_triple

\* a faulty lock, which lets every estimate through
NeverLockedOut(is_drop, raw_bpm, ref) == FALSE

\* the lock on drops: a non-drop is rejected without a reference, or when it is
\* not coherent with the reference
LockedOut(is_drop, raw_bpm, ref) == ~is_drop /\ (ref = 0 \/ ~Coherent(raw_bpm, ref))

\* a faulty lock, which never takes a reference
KeepReference(is_drop, raw_bpm, ref) == ref

\* a faulty lock, which takes its reference from the first drop only
FirstReference(is_drop, raw_bpm, ref) == IF is_drop /\ ref = 0 THEN raw_bpm ELSE ref

\* a drop becomes the reference
NewReference(is_drop, raw_bpm, ref) == IF is_drop THEN raw_bpm ELSE ref

\* a faulty smoothing of the energy, which returns the energy just pushed
LatestEnergy(h) == IF h = <<>> THEN 0 ELSE 60 * h[Len(h)].energy

\* mean of the history energies, in 1/60 thousandths
MeanEnergy(h) == IF h = <<>> THEN 0 ELSE (60 * Sum(Energies(h))) \div Len(h)

\* a faulty gate, which forgets that the history may be empty
QuietGate(h, fine_energy_mean) == fine_energy_mean < 30

\* the adaptive energy threshold of the legacy analyser: the history is not
\* empty, fine_energy_mean < avg_history_energy * 0.9 and < 0.03
AdaptiveGate(h, fine_energy_mean) ==
    /\ h # <<>>
    /\ 600 * fine_energy_mean < 9 * MeanEnergy(h)
    /\ fine_energy_mean < 30

\* BpmAnalyzer::process of the legacy analyser
legacy_process(new_samples, o) ==
    LET empty_result == [bpm |-> 0, is_drop |-> FALSE, energy |-> 0,
                         average_energy |-> average_energy]
        fine_chunk_accum == Decimate(Rectified(input_filter, new_samples), legacy_fine_step)
        fine == PushAll(fine_buffer, LegacyFineCapacity, fine_chunk_accum)
        coarse == update_buffer(coarse_buffer, LegacyCoarseCapacity, fine_chunk_accum, coarse_step)
        \* the returns of the signal path
        failed ==
            \/ AllZero(coarse) \/ o.stage = "coarse"
            \/ AllZero(fine) \/ o.stage = "gate"
            \/ o.stage = "fine"
        raw_bpm == o.est.bpm
        is_drop == o.est.is_drop
        fine_energy_mean == o.est.energy
        now == clock + 1
        silent == SilenceElapsed(now, last_detection_time)
        h1 == IF silent THEN <<>> ELSE history
        ref1 == IF silent THEN 0 ELSE reference_bpm
        gated == AdaptiveGate(h1, fine_energy_mean)
        pushed == PushHistory(h1, LegacyHistoryDepth,
                              [bpm |-> raw_bpm, energy |-> fine_energy_mean, timestamp |-> now])
    IN  /\ version = "legacy"
        /\ Called(new_samples)
        /\ fine_buffer' = fine
        /\ coarse_buffer' = coarse
        /\ raw_buffer' = raw_buffer
        /\ IF Len(coarse) < LegacyCoarseThreshold
           THEN /\ NoEstimate(new_samples, "buffer", empty_result, history)
                /\ UNCHANGED <<last_detection_time, reference_bpm, average_energy>>
           ELSE IF failed
           THEN /\ NoEstimate(new_samples, "signal", empty_result, history)
                /\ UNCHANGED <<last_detection_time, reference_bpm, average_energy>>
           ELSE IF gated \/ LockedOut(is_drop, raw_bpm, ref1)
           THEN /\ NoEstimate(new_samples, "smoother", empty_result,
                              RejectedHistory(h1, pushed))
                /\ reference_bpm' = ref1
                /\ UNCHANGED <<last_detection_time, average_energy>>
           ELSE /\ Accept([bpm |-> Median(Bpms(pushed)), is_drop |-> is_drop,
                           energy |-> fine_energy_mean,
                           average_energy |-> MeanEnergy(pushed)],
                          pushed)
                /\ reference_bpm' = NewReference(is_drop, raw_bpm, ref1)
                /\ last_detection_time' = now
                /\ average_energy' = MeanEnergy(pushed)

\* time passes between two calls
Wait(d) ==
    /\ clock + d <= MaxClock
    /\ clock' = clock + d
    /\ UNCHANGED <<version, fine_buffer, coarse_buffer, raw_buffer, input_filter,
                   history, last_detection_time, reference_bpm, average_energy, result,
                   returned_at, total_samples, zero_input, zero_since_accept,
                   drop_accepted>>

\* idle times around the silence limit: with the call that follows, exactly
\* the limit and one second more
Gaps == {SilenceLimit - 1, SilenceLimit}

\* the smoother scenarios: every outcome of the signal path, idle times
Next ==
    \/ \E b \in Frames, o \in Oracles : process(b, o) /\ UNCHANGED others
    \/ \E b \in Frames, o \in LegacyOracles : legacy_process(b, o) /\ UNCHANGED others
    \/ \E d \in Gaps : Wait(d) /\ UNCHANGED others

Spec == Init /\ [][Next]_vars

\* the buffer scenarios: batches of every length, a signal path that yields
\* an estimate whenever the window lets it
NextInput ==
    \/ \E b \in Batches, o \in EagerOracles : process(b, o) /\ UNCHANGED others
    \/ \E b \in Batches, o \in LegacyEagerOracles :
           legacy_process(b, o) /\ UNCHANGED others

SpecInput == Init /\ [][NextInput]_vars

----------------------------------------------------------------------------
\* Properties of the smoother (checked under Spec)

\* a step that is one call of process
CallStep == clock' = clock + 1

\* the call of this step returned an estimate
Accepted == CallStep /\ returned_at' = "end"

\* the call of this step is made more than 10 s after the last accepted
\* estimate of the legacy analyser (or after construction)
LegacyIdleCall ==
    version = "legacy" /\ CallStep /\ clock' - last_detection_time > SilenceLimit

\* C1: starting from a fresh analyser, no estimate is accepted for a non-drop
\* batch until a drop has been accepted: the first accepted estimate is
\* always a drop.
C1_FirstAcceptedIsDrop ==
    [][(Accepted /\ ~drop_accepted) => result'.is_drop]_vars

\* the same statement for the legacy analyser alone, whose lock on drops
\* rejects every non-drop while the reference is 0
C1_LegacyFirstAcceptedIsDrop ==
    [][(version = "legacy" /\ Accepted /\ ~drop_accepted) => result'.is_drop]_vars

C3_SilenceClears ==
    [][(LegacyIdleCall /\ reference_bpm > 0 /\ zero_since_accept'
            /\ returned_at' # "end")
          => (reference_bpm' = 0 /\ history' = <<>>)]_vars

\* C3 (amended): a call made more than 10 s after the last accepted estimate
\* leaves reference and history as they were when it returns before the
\* smoother (as silent batches do); it leaves the reference 0 and the history
\* empty when the smoother rejects it; when it is accepted the history is the
\* new entry alone.
C3_SilenceClearsInSmoother ==
    [][LegacyIdleCall =>
          /\ returned_at' \in {"buffer", "signal"}
                 => UNCHANGED <<reference_bpm, history>>
          /\ returned_at' = "smoother"
                 => (reference_bpm' = 0 /\ history' = <<>>)
          /\ returned_at' = "end"
                 => (Len(history') = 1 /\ history'[1].timestamp = clock')]_vars

\* C3 witness: locked, only silent batches since the last accepted estimate,
\* the last of them more than 10 s after it, and the reference still set
C3_Witness ==
    /\ version = "legacy"
    /\ reference_bpm > 0
    /\ history # <<>>
    /\ zero_since_accept
    /\ returned_at = "signal"
    /\ clock - last_detection_time > SilenceLimit

IdleCall ==
    \/ LegacyIdleCall
    \/ /\ version = "current"
       /\ CallStep
       /\ history # <<>>
       /\ clock' - history[Len(history)].timestamp > SilenceLimit

\* C5 (as stated): a call of process that yields no estimate leaves the
\* reference, the history and the last-accepted timestamp as they were.
C5_NoEstimateChangesNothing ==
    [][(CallStep /\ returned_at' # "end")
          => UNCHANGED <<reference_bpm, history, last_detection_time>>]_vars

\* C5 (amended): a call of process that yields no estimate never adds a
\* history entry, never sets a new reference and never moves the last-accepted
\* timestamp; when it returns before the smoother it leaves all three as they
\* were; when the smoother rejects it more than 10 s after the last accepted
\* estimate it has emptied the history and set the reference to 0, and
\* otherwise it leaves them as they were.
C5_NoEstimateOnlyClears ==
    [][(CallStep /\ returned_at' # "end") =>
          /\ last_detection_time' = last_detection_time
          /\ IF returned_at' = "smoother" /\ IdleCall
             THEN history' = <<>> /\ reference_bpm' = 0
             ELSE UNCHANGED <<reference_bpm, history>>]_vars

\* C5 witness: the current analyser accepted a drop, and a later call that
\* fails the cross-validation has returned nothing and emptied the history
C5_Witness ==
    /\ version = "current"
    /\ drop_accepted
    /\ returned_at = "smoother"
    /\ result = None
    /\ history = <<>>

\* the history depth of the analyser that runs
Depth == IF version = "legacy" THEN LegacyHistoryDepth ELSE HistoryDepth

\* C6: the history holds at most 5 entries (at most 3 in the current
\* analyser), and its timestamps increase strictly from oldest to newest.
C6_HistoryBounded ==
    /\ Len(history) <= 5
    /\ Len(history) <= Depth
    /\ \A i \in 1..Len(history) : \A j \in 1..Len(history) :
           i < j => history[i].timestamp < history[j].timestamp

\* C6 witness: a full history of 5 entries, pushed by more calls than it holds
C6_Witness ==
    /\ Len(history) = 5
    /\ history[5].timestamp - history[1].timestamp = 4
    /\ clock > 7

----------------------------------------------------------------------------
\* Properties of the buffers (checked under SpecInput)

\* capacities of the analyser that runs
FineCap == IF version = "legacy" THEN LegacyFineCapacity ELSE FineCapacity
CoarseCap == IF version = "legacy" THEN LegacyCoarseCapacity ELSE CoarseCapacity
RawCap == IF version = "legacy" THEN 0 ELSE RawCapacity
FineStep == IF version = "legacy" THEN legacy_fine_step ELSE fine_step

\* C7: for batches of any lengths, the fine, coarse and raw buffers never hold
\* more than their capacity.
C7_BuffersBounded ==
    /\ Len(fine_buffer) <= FineCap
    /\ Len(coarse_buffer) <= CoarseCap
    /\ Len(raw_buffer) <= RawCap

\* C7 witness: more input than fills every buffer has been pushed, and the
\* three buffers of the current analyser are full
C7_Witness ==
    /\ version = "current"
    /\ total_samples = MaxTotal
    /\ Len(fine_buffer) = FineCapacity
    /\ Len(coarse_buffer) = CoarseCapacity
    /\ Len(raw_buffer) = RawCapacity

\* C8 (as stated): once the input samples pushed exceed a buffer's capacity,
\* that buffer's length equals its capacity.
C8_FullAfterCapacityInputs ==
    /\ total_samples > FineCap => Len(fine_buffer) = FineCap
    /\ total_samples > CoarseCap => Len(coarse_buffer) = CoarseCap
    /\ (version = "current" /\ total_samples > RawCap) => Len(raw_buffer) = RawCap

\* C8 (amended): a buffer is full once the input samples pushed reach its
\* capacity times the decimation between input and buffer: fine_step for the
\* fine and raw buffers, fine_step * coarse_step for the coarse buffer.
C8_FullAfterDecimatedInputs ==
    /\ total_samples >= FineCap * FineStep => Len(fine_buffer) = FineCap
    /\ total_samples >= CoarseCap * FineStep * coarse_step
           => Len(coarse_buffer) = CoarseCap
    /\ (version = "current" /\ total_samples >= RawCap * FineStep)
           => Len(raw_buffer) = RawCap

\* C8 witness: exactly capacity * fine_step input samples have been pushed and
\* the fine buffer of the current analyser has just become full
C8_Witness ==
    /\ version = "current"
    /\ total_samples = FineCapacity * fine_step
    /\ Len(fine_buffer) = FineCapacity
    /\ Len(raw_buffer) = RawCapacity

\* C9: process returns no estimate on every call made while the coarse buffer
\* holds fewer values than its capacity.
C9_NoEstimateBeforeFull ==
    [][(CallStep /\ Len(coarse_buffer') < CoarseCap) => returned_at' # "end"]_vars

\* the same statement for the current analyser alone, whose check compares the
\* length with the capacity
C9_CurrentNoEstimateBeforeFull ==
    [][(version = "current" /\ CallStep /\ Len(coarse_buffer') < CoarseCapacity)
          => (returned_at' = "buffer" /\ result' = None)]_vars

\* C10: while every batch fed to a fresh analyser is all zeros, every call
\* returns no estimate, the reference stays 0 and the history stays empty.
C10_SilenceYieldsNothing ==
    zero_input =>
        /\ returned_at \in {"start", "buffer", "signal"}
        /\ "bpm" \in DOMAIN result => result.bpm = 0
        /\ reference_bpm = 0
        /\ history = <<>>

\* C10 witness: the window is full of zeros and the call returned at the
\* checks of the signal path
C10_Witness ==
    /\ zero_input
    /\ total_samples = MaxTotal
    /\ Len(coarse_buffer) = CoarseCap
    /\ returned_at = "signal"

----------------------------------------------------------------------------
\* The harmonic coherence check of the legacy lock, called on its own

\* raw estimates of the search range, every whole BPM, against two references
CoherenceArgs ==
    { [function |-> "coherence", raw_bpm |-> 10 * k, reference_bpm |-> r] :
          k \in (min_bpm \div 10)..(max_bpm \div 10), r \in {1000, 1200} }

CoherenceInit ==
    /\ AnalyserInit /\ version = "legacy"
    /\ LinkInit /\ ConsumerInit /\ WorkerInit
    /\ args \in CoherenceArgs
    /\ ret = Idle

\* a non-drop estimate meets the lock while the reference is args.reference_bpm
CheckCoherence ==
    /\ args.function = "coherence"
    /\ ret = Idle
    /\ ret' = [function |-> "coherence",
               accepted |-> ~LockedOut(FALSE, args.raw_bpm, args.reference_bpm)]
    /\ UNCHANGED <<clock, analyser_vars, args, link_vars, consumer_vars, worker_vars>>

SpecCoherence == CoherenceInit /\ [][CheckCoherence]_vars

\* |x|
Abs(x) == IF x < 0 THEN -x ELSE x

\* raw_bpm is within 10% of reference * num / den, the tolerance being 10% of
\* that harmonic
WithinTenPercent(raw_bpm, reference, num, den) ==
    10 * Abs(den * raw_bpm - num * reference) <= num * reference

\* C11: a non-drop estimate met with a reference > 0 is accepted if and only
\* if it lies within 10% of the reference, of twice the reference, of half the
\* reference or of three times the reference, the tolerance being 10% of the
\* harmonic it is compared with.
C11_AcceptedIffWithinTenPercent ==
    ret # Idle =>
        (ret.accepted <=>
            \/ WithinTenPercent(args.raw_bpm, args.reference_bpm, 1, 1)
            \/ WithinTenPercent(args.raw_bpm, args.reference_bpm, 2, 1)
            \/ WithinTenPercent(args.raw_bpm, args.reference_bpm, 1, 2)
            \/ WithinTenPercent(args.raw_bpm, args.reference_bpm, 3, 1))

\* what the code accepts: the tolerance is 10% of the reference for the
\* reference itself, half of that for the double, twice that for the half and
\* a third of that for the triple
C11_AcceptedIffWithinScaledTolerance ==
    ret # Idle =>
        (ret.accepted <=>
            \/ 10 * Abs(args.raw_bpm - args.reference_bpm) <= args.reference_bpm
            \/ 20 * Abs(args.raw_bpm - 2 * args.reference_bpm) <= args.reference_bpm
            \/ 10 * Abs(2 * args.raw_bpm - args.reference_bpm) <= 4 * args.reference_bpm
            \/ 30 * Abs(args.raw_bpm - 3 * args.reference_bpm) <= args.reference_bpm)

----------------------------------------------------------------------------
\* The smoothing scenarios: estimates of two tempi and two energies on full
\* batches of sound, a bounded number of calls with no idle time

SmoothCalls == 8

SmoothFrames == {[i \in 1..MaxBatch |-> NonZero]}

\* current analyser: a failed fine search, or one of two tempi, the first
\* with a drop
SmoothOracles ==
    { [stage |-> "fine"],
      [stage |-> "estimate", aubio_bpm |-> 0,
       est |-> [bpm |-> 1200, confidence |-> 7, energy_rise |-> TRUE]],
      [stage |-> "estimate", aubio_bpm |-> 0,
       est |-> [bpm |-> 1250, confidence |-> 7, energy_rise |-> FALSE]] }

\* legacy analyser: a failed fine search, a loud drop at 120, a loud non-drop
\* at 125, a quiet drop at 125 (fine energy_mean 0.020, below the 0.03 of the
\* adaptive gate)
LegacySmoothOracles ==
    { [stage |-> "fine"],
      [stage |-> "estimate", est |-> [bpm |-> 1200, energy |-> 50, is_drop |-> TRUE]],
      [stage |-> "estimate", est |-> [bpm |-> 1250, energy |-> 50, is_drop |-> FALSE]],
      [stage |-> "estimate", est |-> [bpm |-> 1250, energy |-> 20, is_drop |-> TRUE]] }

NextSmooth ==
    \/ \E b \in SmoothFrames, o \in SmoothOracles :
           clock < SmoothCalls /\ process(b, o) /\ UNCHANGED others
    \/ \E b \in SmoothFrames, o \in LegacySmoothOracles :
           clock < SmoothCalls /\ legacy_process(b, o) /\ UNCHANGED others

SpecSmooth == Init /\ [][NextSmooth]_vars

\* the call of this step is a call of the legacy analyser on which the signal
\* path found the drop o
LegacyDropCall(o) ==
    /\ o.stage = "estimate"
    /\ o.est.is_drop
    /\ returned_at' \in {"smoother", "end"}
    /\ \E b \in SmoothFrames : legacy_process(b, o)

\* the adaptive gate of the legacy analyser rejects fine energy_mean e, given
\* the history the call found (after the silence reset)
Gated(e) ==
    LET h == IF clock + 1 - last_detection_time > SilenceLimit THEN <<>> ELSE history
    IN  /\ h # <<>>
        /\ 10 * e * Len(h) < 9 * Sum(Energies(h))
        /\ e < 30

\* C12 (as stated): on every batch for which a drop is detected, the
\* reference is set to that batch's raw estimate and the batch is accepted.
C12_EveryDropSetsReference ==
    [][\A o \in LegacySmoothOracles :
          LegacyDropCall(o) => (Accepted /\ reference_bpm' = o.est.bpm)]_vars

\* C12 (amended): on every batch for which a drop is detected and which the
\* adaptive gate lets through, the reference is set to that batch's raw
\* estimate and the batch is accepted, whatever the returned median is; a
\* drop that the adaptive gate rejects leaves the reference as it was.
C12_UngatedDropSetsReference ==
    [][\A o \in LegacySmoothOracles :
          LegacyDropCall(o) =>
              IF Gated(o.est.energy)
              THEN ~Accepted /\ reference_bpm' = reference_bpm
              ELSE /\ Accepted
                   /\ result'.is_drop
                   /\ reference_bpm' = o.est.bpm
                   /\ history'[Len(history')].bpm = o.est.bpm]_vars

\* C12 witness: an accepted drop of the legacy analyser whose raw estimate,
\* now the reference, is not the median that was returned
C12_Witness ==
    /\ version = "legacy"
    /\ returned_at = "end"
    /\ result.is_drop
    /\ reference_bpm = history[Len(history)].bpm
    /\ reference_bpm # result.bpm

\* number of entries of s that satisfy the comparison with m
AtMost(s, m) == Cardinality({i \in DOMAIN s : s[i] <= m})
AtLeast(s, m) == Cardinality({i \in DOMAIN s : s[i] >= m})

\* C13: the bpm returned by an accepted call is the median of the bpm values
\* of the history as it stands after the raw estimate has been pushed (1 to
\* 5 entries): a value of the history with at least half of the entries on
\* either side, the upper of the two middle values when the length is even.
\* The average energy the legacy analyser returns is the mean of the history
\* energies.
C13_MedianAndMean ==
    [][Accepted =>
          LET s == Bpms(history')
              n == Len(s)
          IN  /\ n \in 1..LegacyHistoryDepth
              /\ \E i \in 1..n : s[i] = result'.bpm
              /\ 2 * AtMost(s, result'.bpm) >= n + 1
              /\ 2 * AtLeast(s, result'.bpm) >= n
              /\ version = "legacy" =>
                     /\ result'.average_energy * n = 60 * Sum(Energies(history'))
                     /\ average_energy' = result'.average_energy]_vars

\* C13 witness: a full legacy history of two tempi and two energies, where
\* the median is not the estimate just pushed
C13_Witness ==
    /\ version = "legacy"
    /\ returned_at = "end"
    /\ Len(history) = LegacyHistoryDepth
    /\ result.bpm # history[Len(history)].bpm
    /\ result.average_energy # 60 * history[Len(history)].energy

\* C13 witness for the current analyser: an even number of entries, the
\* upper middle value returned
C13_CurrentWitness ==
    /\ version = "current"
    /\ returned_at = "end"
    /\ Len(history) = 2
    /\ history[1].bpm > history[2].bpm
    /\ result.bpm = history[1].bpm

----------------------------------------------------------------------------
\* The capture thread, its channel and the consumer loop of the embedders.
\* A sample is the number of the stream that captured it. The state of the
\* analyser and of the LinkManager is that of the other scenarios; here a call
\* of analyzer.process is the batch it is given and the rate of the analyser
\* that is given it.

\* streams the capture thread starts
MaxStreams == 2
\* longest packet of the capture callback, in samples
MaxPacket == 2
\* number of messages a bounded channel would hold; the scenarios stop the
\* senders above it
QueueBound == 3

\* rates a stream can announce
Rates == {0, TARGET_SAMPLE_RATE \div 2, TARGET_SAMPLE_RATE}

\* BpmAnalyzer::new(rate, None) returns Ok: Hertz::from_hz accepts the rate
Constructible(rate) == rate > 0

\* AudioWorker::create_execution_stream: Reset, then the rate of the stream
StartStream(rate) ==
    /\ streams < MaxStreams
    /\ Len(queue) <= QueueBound
    /\ streams' = streams + 1
    /\ queue' = queue \o <<[type |-> "Reset"],
                           [type |-> "SampleRateChanged", rate |-> rate]>>
    /\ UNCHANGED <<new_samples_accumulator, analyzer_rate, stream_rate, resets, batch,
                   current_hop_size, analysis_enabled, discarded>>

\* the input callback of the stream: sender.send(AudioMessage::Samples(buffer))
Capture(n) ==
    /\ streams > 0
    /\ Len(queue) <= QueueBound
    /\ queue' = Append(queue, [type |-> "Samples", packet |-> [i \in 1..n |-> streams]])
    /\ UNCHANGED <<new_samples_accumulator, analyzer_rate, stream_rate, resets, batch,
                   current_hop_size, analysis_enabled, streams, discarded>>

\* the consumer takes a message of the given type off the channel
Received(type) ==
    /\ queue # <<>>
    /\ Head(queue).type = type
    /\ queue' = Tail(queue)
    /\ UNCHANGED streams

\* the AudioMessage::Samples arm
ReceiveSamples ==
    /\ Received("Samples")
    /\ LET accumulator == new_samples_accumulator \o Head(queue).packet
       IN  IF ~analysis_enabled
           THEN /\ new_samples_accumulator' = <<>>
                /\ UNCHANGED batch
           ELSE IF Len(accumulator) >= current_hop_size
           THEN /\ batch' = [samples |-> accumulator, rate |-> analyzer_rate]
                /\ new_samples_accumulator' = <<>>
           ELSE /\ new_samples_accumulator' = accumulator
                /\ UNCHANGED batch
    /\ UNCHANGED <<analyzer_rate, stream_rate, resets, current_hop_size,
                   analysis_enabled, discarded>>

\* a faulty Reset arm, which keeps the accumulator
Kept(accumulator) == accumulator

\* new_samples_accumulator.clear()
Cleared(accumulator) == <<>>

\* the AudioMessage::Reset arm
ReceiveReset ==
    /\ Received("Reset")
    /\ new_samples_accumulator' = Cleared(new_samples_accumulator)
    /\ resets' = resets + 1
    /\ discarded' = (discarded \/ new_samples_accumulator # <<>>)
    /\ UNCHANGED <<analyzer_rate, stream_rate, batch, current_hop_size,
                   analysis_enabled>>

\* the AudioMessage::SampleRateChanged arm
ReceiveSampleRateChanged ==
    /\ Received("SampleRateChanged")
    /\ LET rate == Head(queue).rate
       IN  /\ stream_rate' = rate
           /\ IF Constructible(rate)
              THEN /\ analyzer_rate' = rate
                   /\ current_hop_size' = rate \div 2
              ELSE UNCHANGED <<analyzer_rate, current_hop_size>>
    /\ UNCHANGED <<new_samples_accumulator, resets, batch, analysis_enabled,
                   discarded>>

\* the NetworkMessage::SetAnalysis arm
SetAnalysis(val) ==
    /\ analysis_enabled' = val
    /\ new_samples_accumulator' = IF val THEN new_samples_accumulator ELSE <<>>
    /\ UNCHANGED <<queue, analyzer_rate, stream_rate, resets, batch, current_hop_size,
                   streams, discarded>>

\* the rest of the state in the consumer scenarios
ConsumerIdle == UNCHANGED <<clock, analyser_vars, function_vars, link_vars, worker_vars>>

NextConsumer ==
    \/ \E rate \in Rates : StartStream(rate) /\ ConsumerIdle
    \/ \E n \in 1..MaxPacket : Capture(n) /\ ConsumerIdle
    \/ ReceiveSamples /\ ConsumerIdle
    \/ ReceiveReset /\ ConsumerIdle
    \/ ReceiveSampleRateChanged /\ ConsumerIdle
    \/ \E val \in BOOLEAN : SetAnalysis(val) /\ ConsumerIdle

\* the embedders construct the current analyser
EmbedderInit == Init /\ version = "current"

SpecConsumer == EmbedderInit /\ [][NextConsumer]_vars

\* the step hands a batch to analyzer.process
ProcessStep ==
    /\ queue # <<>>
    /\ queue' = Tail(queue)
    /\ Head(queue).type = "Samples"
    /\ analysis_enabled
    /\ Len(new_samples_accumulator) + Len(Head(queue).packet) >= current_hop_size

\* C14 (as stated): after a SampleRateChanged(r) message, every batch the
\* consumer passes to process is handled by an analyser that was constructed
\* with rate r, also when the construction with r failed.
C14_BatchesAtAnnouncedRate ==
    [][ProcessStep => batch'.rate = stream_rate]_vars

\* what the code gives: the analyser that handles a batch was constructed
\* with the last announced rate that BpmAnalyzer::new accepted, or with
\* TARGET_SAMPLE_RATE when there was none
C14_BatchesAtLastConstructibleRate ==
    [][ProcessStep =>
          /\ batch'.rate = analyzer_rate
          /\ Constructible(batch'.rate)
          /\ Constructible(stream_rate) => batch'.rate = stream_rate]_vars

\* C15: on a Reset message the consumer discards its accumulator: no sample
\* received before a Reset is in a batch passed to process after that
\* Reset, so that every sample of a batch was captured by the stream whose
\* Reset the consumer handled last.
C15_NoSampleAcrossReset ==
    /\ [][ProcessStep =>
            /\ batch'.samples = new_samples_accumulator \o Head(queue).packet
            /\ \A i \in DOMAIN batch'.samples : batch'.samples[i] = resets]_vars
    /\ [][resets' # resets => new_samples_accumulator' = <<>>]_vars

\* C15 witness: a batch was passed to process after the second Reset, which
\* had found samples in the accumulator
C15_Witness ==
    /\ discarded
    /\ resets = MaxStreams
    /\ batch.samples # <<>>
    /\ \A i \in DOMAIN batch.samples : batch.samples[i] = MaxStreams

\* number of Samples messages in the channel
SamplesQueued == Cardinality({i \in DOMAIN queue : queue[i].type = "Samples"})

\* C18 (as stated): the queue between the capture thread and the processing
\* thread is bounded: the number of queued Samples messages never exceeds
\* the bound, excess batches being dropped.
C18_QueueBounded == SamplesQueued <= QueueBound

\* what the code gives: a send never drops a batch, the channel grows by
\* every message sent and shrinks only when the consumer receives
C18_SendNeverDrops ==
    [][\/ Len(queue') >= Len(queue)
       \/ queue' = Tail(queue)]_vars

----------------------------------------------------------------------------
\* The LinkManager. Tempi are in hundredths of a BPM; in these scenarios the
\* clock counts half seconds, so that a Duration has a part that as_secs
\* drops.

\* the clock stops the LinkManager scenarios at this reading, in half seconds
MaxLinkClock == 46
\* whole seconds that last_sync_time.elapsed() must exceed
Cooldown == 10

\* Duration::as_secs
as_secs(d) == d \div 2

\* a Duration of whole seconds
from_secs(n) == 2 * n

\* tempi around 120 BPM: 120.00, 120.10, 120.11
Tempi == {DefaultTempo, DefaultTempo + 10, DefaultTempo + 11}

\* beat offsets: none, or half a second
BeatOffsets == {None, [option |-> "Some", duration |-> 1]}

\* a faulty test, which lets every difference through
AnyDifference(current_tempo, bpm) == current_tempo # bpm

\* (current_tempo - bpm).abs() > 0.1
MicroUpdate(current_tempo, bpm) == Abs(current_tempo - bpm) > 10

\* beat_offset.filter(|_| is_drop && self.last_sync_time.elapsed().as_secs() > 10)
Filtered(is_drop, beat_offset) ==
    IF /\ beat_offset # None
       /\ is_drop
       /\ as_secs(clock - last_sync_time) > Cooldown
    THEN beat_offset ELSE None

\* LinkManager::update_tempo, with sync_downbeat
update_tempo(bpm, is_drop, beat_offset) ==
    LET current_tempo == tempo
        offset == Filtered(is_drop, beat_offset)
    IN  /\ tempo' = IF MicroUpdate(current_tempo, bpm) THEN bpm ELSE tempo
        /\ IF offset # None
           THEN /\ downbeat' = [requested |-> TRUE, beat |-> 0,
                                time |-> clock - offset.duration, quantum |-> 4]
                /\ last_sync_time' = clock
           ELSE UNCHANGED <<downbeat, last_sync_time>>
        /\ args' = [function |-> "update_tempo", bpm |-> bpm, is_drop |-> is_drop,
                    beat_offset |-> beat_offset]
        /\ ret' = [function |-> "update_tempo", current_tempo |-> current_tempo]
        /\ UNCHANGED clock

\* a peer of the Link session sets its tempo
PeerTempo(bpm) ==
    /\ tempo' = bpm
    /\ UNCHANGED <<clock, last_sync_time, downbeat, args, ret>>

\* half a second passes
Tick ==
    /\ clock < MaxLinkClock
    /\ clock' = clock + 1
    /\ UNCHANGED <<tempo, last_sync_time, downbeat, args, ret>>

\* the rest of the state in the LinkManager scenarios
LinkIdle == UNCHANGED <<analyser_vars, consumer_vars, worker_vars>>

NextLink ==
    \/ \E bpm \in Tempi, is_drop \in BOOLEAN, beat_offset \in BeatOffsets :
           update_tempo(bpm, is_drop, beat_offset) /\ LinkIdle
    \/ \E bpm \in Tempi : PeerTempo(bpm) /\ LinkIdle
    \/ Tick /\ LinkIdle

SpecLink == EmbedderInit /\ [][NextLink]_vars

\* C16: update_tempo changes the session tempo only when the new bpm differs
\* from the current session tempo by more than 0.1 BPM; when the difference
\* is at most 0.1 BPM the session tempo is left unchanged.
C16_TempoChangesAboveThreshold ==
    [][\A bpm \in Tempi, is_drop \in BOOLEAN, beat_offset \in BeatOffsets :
          update_tempo(bpm, is_drop, beat_offset) =>
              /\ tempo' # tempo => (bpm - tempo > 10 \/ tempo - bpm > 10)
              /\ (bpm - tempo <= 10 /\ tempo - bpm <= 10) => tempo' = tempo
              /\ tempo' \in {tempo, bpm}]_vars

\* C16 witness: the last call asked for a tempo 0.1 BPM away from the session
\* tempo, which is still what it was
C16_Witness ==
    /\ ret # Idle
    /\ args.bpm - ret.current_tempo = 10
    /\ tempo = ret.current_tempo

\* the step is a call of update_tempo that requests a downbeat
Realigned == downbeat' # downbeat

\* C17 (as stated): once a realignment has been made, update_tempo requests
\* a downbeat realignment (beat 0 at now - beat_offset, quantum 4) exactly
\* when is_drop is true, a beat_offset is supplied and at least 10 s have
\* elapsed since the last realignment, so that a qualifying drop arriving
\* 10 s or more after the previous realignment does realign.
C17_RealignAfterTenSeconds ==
    [][\A bpm \in Tempi, is_drop \in BOOLEAN, beat_offset \in BeatOffsets :
          (downbeat.requested /\ update_tempo(bpm, is_drop, beat_offset)) =>
              (Realigned <=>
                  /\ is_drop
                  /\ beat_offset # None
                  /\ clock - last_sync_time >= from_secs(Cooldown))]_vars

\* the part of C17 that holds: any two realignments are at least 10 s apart
C17_RealignmentsTenSecondsApart ==
    [][Realigned => clock - last_sync_time >= from_secs(Cooldown)]_vars

\* what the code gives: the realignment needs 11 s or more since the last
\* one, or since the construction of the LinkManager when there was none;
\* realignments are at least 11 s apart
C17_RealignAfterElevenSeconds ==
    [][\A bpm \in Tempi, is_drop \in BOOLEAN, beat_offset \in BeatOffsets :
          update_tempo(bpm, is_drop, beat_offset) =>
              /\ Realigned <=>
                     /\ is_drop
                     /\ beat_offset # None
                     /\ clock - last_sync_time >= from_secs(Cooldown + 1)
              /\ Realigned =>
                     /\ downbeat' = [requested |-> TRUE, beat |-> 0,
                                      time |-> clock - beat_offset.duration,
                                      quantum |-> 4]
                     /\ last_sync_time' = clock]_vars

----------------------------------------------------------------------------
\* The autocorrelation searches, called on their own. A centred window is a
\* sequence of integers of sum 0 (a window minus its mean, on a scale where
\* its values are whole); correlations are kept in thirds, so that the
\* moving average of three of them is exact; confidences are fractions.

\* longest window of the search scenarios
MaxWindow == 6
\* largest max_lag of the search scenarios
MaxLag == 5

\* the values of a centred window
Centred == {-1, 0, 1}

\* centred windows of two values or more, as normalize_window leaves them
Windows ==
    UNION { {v \in [1..n -> Centred] : Sum(v) = 0} : n \in 2..MaxWindow }

\* confidence floors, in tenths: min_confidence and min_coarse_confidence of
\* the legacy analyser
Floors == {3, 4}

\* energy_sum of a centred window
EnergySum(v) == Sum([i \in 1..Len(v) |-> v[i] * v[i]])

\* the inner product of the window with itself shifted by lag
Correlation(v, lag) == Sum([i \in 1..(Len(v) - lag) |-> v[i] * v[i + lag]])

\* the scan for the largest correlation: lags from lag to end_lag, best so
\* far in best
RECURSIVE Scan(_, _, _, _)
Scan(corrs, lag, end_lag, best) ==
    IF lag > end_lag THEN best
    ELSE Scan(corrs, lag + 1, end_lag,
              IF corrs[lag] > best.max_corr
              THEN [best_lag |-> lag, max_corr |-> corrs[lag]]
              ELSE best)

\* a faulty confidence test, which lets every confidence through
NeverTooLow(max_corr, energy, min_confidence) == FALSE

\* confidence < min_confidence, with confidence = max_corr / energy when
\* energy > 0 and 0 otherwise (max_corr in thirds, min_confidence in tenths)
TooLow(max_corr, energy, min_confidence) ==
    IF energy > 0
    THEN 10 * max_corr < 3 * min_confidence * energy
    ELSE 0 < min_confidence

\* what a search returns: Err, or Ok((best_lag, confidence, max_corr))
SearchResult(function, best, energy, min_confidence) ==
    IF best.best_lag = 0 \/ TooLow(best.max_corr, energy, min_confidence)
    THEN [function |-> function, status |-> "Err"]
    ELSE [function |-> function, status |-> "Ok", best_lag |-> best.best_lag,
          confidence |-> [num |-> best.max_corr, den |-> 3 * energy],
          max_corr |-> best.max_corr]

\* BpmAnalyzer::search_correlation of the current analyser
search_correlation(centered_signal, energy, min_lag, max_lag, min_confidence) ==
    LET safe_max_lag == Max(Len(centered_signal) - 1, 0)
        start_lag == Max(min_lag, 1)
        end_lag == Min(max_lag, safe_max_lag)
        corrs == [lag \in 0..end_lag |->
                     IF lag >= start_lag
                     THEN 3 * Correlation(centered_signal, lag) ELSE 0]
        corrs_smoothed ==
            [lag \in 0..end_lag |->
                IF lag \in (start_lag + 1)..(end_lag - 2)
                THEN (corrs[lag - 1] + corrs[lag] + corrs[lag + 1]) \div 3
                ELSE corrs[lag]]
    IN  SearchResult("search_correlation",
                     Scan(corrs_smoothed, start_lag, end_lag,
                          [best_lag |-> 0, max_corr |-> 0]),
                     energy, min_confidence)

\* the fine search of the legacy analyser; its coarse search is the same scan
\* over min_lag_c..=max_lag_c
legacy_search(centered_signal, energy, min_lag, max_lag, min_confidence) ==
    LET safe_max_lag == Max(Len(centered_signal) - 1, 0)
        start_lag == Max(min_lag, 1)
        end_lag == Min(max_lag, safe_max_lag)
        corrs == [lag \in 0..end_lag |->
                     IF lag >= start_lag
                     THEN 3 * Correlation(centered_signal, lag) ELSE 0]
    IN  SearchResult("legacy_search",
                     Scan(corrs, start_lag, end_lag, [best_lag |-> 0, max_corr |-> 0]),
                     energy, min_confidence)

\* the calls of the search scenarios: energy is the energy_sum of the window
SearchArgs ==
    { [function |-> f, centered_signal |-> v, energy |-> EnergySum(v),
       min_lag |-> lo, max_lag |-> hi, min_confidence |-> c] :
          f \in {"search_correlation", "legacy_search"}, v \in Windows,
          lo \in 0..2, hi \in 1..MaxLag, c \in Floors }

SearchInit ==
    /\ args \in SearchArgs
    /\ ret = Idle
    /\ AnalyserInit /\ LinkInit /\ ConsumerInit /\ WorkerInit
    /\ version = IF args.function = "legacy_search" THEN "legacy" ELSE "current"

\* the rest of the state in the search scenarios
SearchIdle == UNCHANGED <<clock, analyser_vars, args, link_vars, consumer_vars, worker_vars>>

CallSearchCorrelation ==
    /\ args.function = "search_correlation"
    /\ ret = Idle
    /\ ret' = search_correlation(args.centered_signal, args.energy, args.min_lag,
                                 args.max_lag, args.min_confidence)
    /\ SearchIdle

CallLegacySearch ==
    /\ args.function = "legacy_search"
    /\ ret = Idle
    /\ ret' = legacy_search(args.centered_signal, args.energy, args.min_lag,
                            args.max_lag, args.min_confidence)
    /\ SearchIdle

NextSearch == CallSearchCorrelation \/ CallLegacySearch

SpecSearch == SearchInit /\ [][NextSearch]_vars

\* the lags the search may return
LagRange ==
    Max(args.min_lag, 1)..Min(args.max_lag, Len(args.centered_signal) - 1)

\* the raw inner product r(l) of the window of the call
r(l) == Correlation(args.centered_signal, l)

\* the search of the call has returned
Returned == ret # Idle

\* C19: whenever the search returns a lag, the confidence returned with it
\* is at least min_confidence; the search fails when no lag of the range has
\* a positive correlation, and when the confidence (of the best raw
\* correlation, a fortiori of the one the search retained) is below
\* min_confidence.
C19_ConfidenceAtLeastFloor ==
    Returned =>
        /\ ret.status = "Ok" =>
               /\ ret.best_lag \in LagRange
               /\ ret.confidence.den > 0
               /\ 10 * ret.confidence.num >= args.min_confidence * ret.confidence.den
        /\ (\A l \in LagRange : r(l) <= 0) => ret.status = "Err"
        /\ (\A l \in LagRange : 10 * r(l) < args.min_confidence * args.energy)
               => ret.status = "Err"

\* C19 witness: the current search returned a lag with a confidence above
\* the floor
C19_Witness ==
    /\ Returned
    /\ args.function = "search_correlation"
    /\ ret.status = "Ok"
    /\ 10 * ret.confidence.num > args.min_confidence * ret.confidence.den

\* C19 witness of the failure: a lag has a positive correlation, and the
\* search failed on the confidence
C19_FailureWitness ==
    /\ Returned
    /\ ret.status = "Err"
    /\ \E l \in LagRange : r(l) > 0

\* C20 (as stated): the search returns a lag of the range that maximises the
\* raw inner product r(l), the returned raw correlation is r(l*) and the
\* confidence is r(l*) / energy_sum.
C20_ReturnsRawArgmax ==
    (Returned /\ ret.status = "Ok") =>
        /\ ret.best_lag \in LagRange
        /\ \A l \in LagRange : r(l) <= r(ret.best_lag)
        /\ ret.max_corr = 3 * r(ret.best_lag)
        /\ ret.confidence.num * args.energy = r(ret.best_lag) * ret.confidence.den

\* what the code gives: the searches of the legacy analyser return the raw
\* argmax
C20_LegacyReturnsRawArgmax ==
    args.function = "legacy_search" => C20_ReturnsRawArgmax

----------------------------------------------------------------------------
\* The octave correction, called on its own with what the coarse search
\* returned. The window enters the correction only through its length and its
\* inner products r(lag), which the scenarios draw: r0 = r(l0) is 20, and the
\* products of five lags around l0/2 and l0/3 are 0 or lie between the
\* thresholds 0.3, 0.4, 0.5 and 0.6 of r0. initial_corr is in thirds, as the
\* searches return it.

\* the lag l0 the coarse search returned
OctaveLag == 40

\* radius of the half-lag neighbourhood of check_harmonics
HalfRadius == 5
\* radius of the neighbourhoods of the legacy analyser
LegacyRadius == 1

\* inner products of a lag near l0/2 or l0/3: 0, 0.35 r0, 0.45 r0, 0.55 r0,
\* 0.65 r0
Products == {0, 7, 9, 11, 13}

\* the inner products of a window of 2 l0 values whose search returned l0,
\* with products a, b around l0/3 and c, d, e around l0/2
Profile(l0, a, b, c, d, e) ==
    [lag \in 0..(2 * l0 - 1) |->
        IF lag = l0 THEN 20
        ELSE IF lag = l0 \div 3 - 1 THEN a
        ELSE IF lag = l0 \div 3 THEN b
        ELSE IF lag = l0 \div 2 - 1 THEN c
        ELSE IF lag = l0 \div 2 THEN d
        ELSE IF lag = l0 \div 2 + 3 THEN e
        ELSE 0]

\* a faulty scan, which takes the lags below the floor too
Unfloored(correlations, lo, hi, floor, best) ==
    Scan([lag \in lo..hi |-> correlations[lag]], lo, hi, best)

\* the best inner product of the lags lo..hi that are at least floor and
\* below the length of the window, starting from best
Neighbourhood(correlations, lo, hi, floor, best) ==
    Scan([lag \in lo..hi |->
             IF lag < floor \/ lag >= Cardinality(DOMAIN correlations)
             THEN 0 ELSE correlations[lag]],
         lo, hi, best)

\* BpmAnalyzer::check_harmonics of the current analyser
check_harmonics(initial_lag, initial_corr, correlations, min_lag) ==
    LET half_lag == initial_lag \div 2
        half == Neighbourhood(correlations, Max(half_lag - HalfRadius, 0),
                              half_lag + HalfRadius, min_lag,
                              [best_lag |-> half_lag, max_corr |-> 0])
    IN  IF half_lag >= min_lag /\ 6 * half.max_corr > initial_corr
        THEN half.best_lag ELSE initial_lag

\* the half-lag check of the legacy analyser
legacy_half_lag(initial_lag, initial_corr, correlations, min_lag) ==
    LET half_lag == initial_lag \div 2
        half == Neighbourhood(correlations, Max(half_lag - LegacyRadius, 0),
                              half_lag + LegacyRadius, 0,
                              [best_lag |-> 0, max_corr |-> 0])
    IN  IF half_lag >= min_lag /\ 30 * half.max_corr > 4 * initial_corr
        THEN half.best_lag ELSE initial_lag

\* the third-lag check of the legacy analyser, after the half-lag check left
\* best_lag_c
legacy_third_lag(best_lag_c, initial_lag, initial_corr, correlations, min_lag) ==
    LET third_lag == initial_lag \div 3
        third == Neighbourhood(correlations, Max(third_lag - LegacyRadius, 0),
                               third_lag + LegacyRadius, 0,
                               [best_lag |-> 0, max_corr |-> 0])
    IN  IF third_lag >= min_lag /\ 10 * third.max_corr > initial_corr
        THEN third.best_lag ELSE best_lag_c

\* a faulty report, which takes the inner product of the adopted lag
AdoptedCorr(initial_corr, best_lag_c, correlations) == 3 * correlations[best_lag_c]

\* the correlation behind the coarse confidence of the result: max_corr_c is
\* not updated by the octave correction
ReportedCorr(initial_corr, best_lag_c, correlations) == initial_corr

\* what the coarse stage hands on: the lag after the half-lag check, the
\* final coarse lag, the coarse confidence of the result
CoarseStage(function, after_half, best_lag_c) ==
    [function |-> function, after_half |-> after_half, best_lag_c |-> best_lag_c,
     coarse_conf |->
         [num |-> ReportedCorr(args.initial_corr, best_lag_c, args.correlations),
          den |-> 3 * args.energy]]

\* the calls of the octave scenarios: two lags l0, a min_lag at
\* l0/3, at l0/2 and above it, a window of energy 2 r0
OctaveArgs ==
    { [function |-> f, initial_lag |-> l0, initial_corr |-> 60, energy |-> 40,
       correlations |-> Profile(l0, a, b, c, d, e), min_lag |-> lo] :
          f \in {"check_harmonics", "legacy_harmonics"},
          l0 \in {OctaveLag, OctaveLag + 2},
          lo \in {OctaveLag \div 3, OctaveLag \div 2, OctaveLag \div 2 + 1},
          a \in {0, 13}, b \in Products, c \in {0, 11}, d \in Products,
          e \in Products }

OctaveInit ==
    /\ args \in OctaveArgs
    /\ ret = Idle
    /\ AnalyserInit /\ LinkInit /\ ConsumerInit /\ WorkerInit
    /\ version = IF args.function = "legacy_harmonics" THEN "legacy" ELSE "current"

CallCheckHarmonics ==
    /\ args.function = "check_harmonics"
    /\ ret = Idle
    /\ LET best_lag_c == check_harmonics(args.initial_lag, args.initial_corr,
                                         args.correlations, args.min_lag)
       IN  ret' = CoarseStage("check_harmonics", best_lag_c, best_lag_c)
    /\ SearchIdle

CallLegacyHarmonics ==
    /\ args.function = "legacy_harmonics"
    /\ ret = Idle
    /\ LET after_half == legacy_half_lag(args.initial_lag, args.initial_corr,
                                         args.correlations, args.min_lag)
           best_lag_c == legacy_third_lag(after_half, args.initial_lag,
                                          args.initial_corr, args.correlations,
                                          args.min_lag)
       IN  ret' = CoarseStage("legacy_harmonics", after_half, best_lag_c)
    /\ SearchIdle

NextOctave == CallCheckHarmonics \/ CallLegacyHarmonics

SpecOctave == OctaveInit /\ [][NextOctave]_vars

\* the lags within one of l
Around(l) == (l - 1)..(l + 1)

\* the best inner product of a set of lags of the call
Best(lags) ==
    CHOOSE m \in {args.correlations[l] : l \in lags} :
        \A l \in lags : args.correlations[l] <= m

\* the half-lag candidate qualifies: r_h > 0.5 r0 and l0/2 >= min_lag
HalfQualifies ==
    /\ args.initial_lag \div 2 >= args.min_lag
    /\ 6 * Best(Around(args.initial_lag \div 2)) > args.initial_corr

\* the third-lag candidate qualifies: r_t > 0.6 r0 and l0/3 >= min_lag
ThirdQualifies ==
    /\ args.initial_lag \div 3 >= args.min_lag
    /\ 5 * Best(Around(args.initial_lag \div 3)) > args.initial_corr

\* C21 (as stated): the half-lag check replaces the coarse lag l0 by the best
\* lag of l0/2 - 1 .. l0/2 + 1 if and only if that best correlation exceeds
\* 0.5 r0 and l0/2 >= min_lag; otherwise it leaves the lag at l0.
C21_HalfLagAdoptedIffQualifies ==
    Returned =>
        IF HalfQualifies
        THEN /\ ret.after_half \in Around(args.initial_lag \div 2)
             /\ args.correlations[ret.after_half] = Best(Around(args.initial_lag \div 2))
        ELSE ret.after_half = args.initial_lag

\* C22 (as stated): whenever the best correlation of l0/3 - 1 .. l0/3 + 1
\* exceeds 0.6 r0 and l0/3 >= min_lag, the final coarse lag is the third-lag
\* candidate, even if the half-lag candidate had been adopted.
C22_ThirdLagOverrides ==
    (Returned /\ ThirdQualifies) =>
        /\ ret.best_lag_c \in Around(args.initial_lag \div 3)
        /\ args.correlations[ret.best_lag_c] = Best(Around(args.initial_lag \div 3))

\* what the code gives: the legacy analyser does so, its third-lag check
\* running after the half-lag check against the original r0
C22_LegacyThirdLagOverrides ==
    args.function = "legacy_harmonics" => C22_ThirdLagOverrides

\* C23: octave correction changes only the coarse lag: the coarse confidence
\* of the result is the correlation the search returned for the original lag
\* l0 over the energy of the window, whether or not a candidate was adopted.
C23_CoarseConfidenceOfOriginalLag ==
    Returned =>
        /\ ret.coarse_conf.den = 3 * args.energy
        /\ ret.coarse_conf.num = args.initial_corr
        /\ ret.coarse_conf.num = 3 * args.correlations[args.initial_lag]

\* C23 witness: a candidate with another inner product than the original lag
\* was adopted
C23_Witness ==
    /\ Returned
    /\ ret.best_lag_c # args.initial_lag
    /\ 3 * args.correlations[ret.best_lag_c] # ret.coarse_conf.num

\* C30 (as stated): the coarse lag produced by the octave correction lies in
\* [min_lag, l0], also when the adopted candidate is the lower neighbour of
\* l0/2 or l0/3.
C30_CorrectedLagInRange ==
    Returned => (ret.best_lag_c >= args.min_lag /\ ret.best_lag_c <= args.initial_lag)

\* C30 (amended): the corrected lag is never longer than l0; the current
\* analyser stays in [min_lag, l0]; the legacy analyser goes at most one lag
\* below min_lag, to the lower neighbour of a candidate
C30_CurrentInRangeLegacyOneBelow ==
    Returned =>
        /\ ret.best_lag_c <= args.initial_lag
        /\ ret.best_lag_c >= args.min_lag - LegacyRadius
        /\ args.function = "check_harmonics" => ret.best_lag_c >= args.min_lag

\* C30 witness: the legacy analyser adopted the lower neighbour of a
\* candidate that is min_lag itself
C30_Witness ==
    /\ Returned
    /\ args.function = "legacy_harmonics"
    /\ ret.best_lag_c = args.min_lag - 1

----------------------------------------------------------------------------
\* The fine stage, called on its own with the coarse lag the octave
\* correction left: the fine search around best_lag_c * coarse_step, then the
\* parabolic interpolation. Lags are fractions num / den with den > 0.

\* search_radius of the fine search, in fine samples
search_radius == 2

\* the coarse lags of the fine scenarios: min_lag and max_lag of the coarse
\* configuration
coarse_min_lag == 1
MaxCoarseLag == 3

\* a fraction with a positive denominator
Fraction(num, den) ==
    IF den < 0 THEN [num |-> -num, den |-> -den] ELSE [num |-> num, den |-> den]

\* a faulty interpolation, which leaves the lag of the search
NoInterpolation(best_lag, max_corr, centered_signal, start_lag, end_lag) ==
    Fraction(best_lag, 1)

\* BpmAnalyzer::parabolic_interpolation; max_corr in thirds, as the search
\* returned it
parabolic_interpolation(best_lag, max_corr, centered_signal, start_lag, end_lag) ==
    IF best_lag > start_lag /\ best_lag < end_lag
    THEN LET y_prev == 3 * Correlation(centered_signal, best_lag - 1)
             y_curr == max_corr
             y_next == 3 * Correlation(centered_signal, best_lag + 1)
             denominator == 2 * (y_prev - 2 * y_curr + y_next)
         IN  IF denominator # 0
             THEN Fraction(best_lag * denominator + (y_prev - y_next), denominator)
             ELSE Fraction(best_lag, 1)
    ELSE Fraction(best_lag, 1)

\* what the fine stage hands on: nothing, or the lag of the search and the
\* refined lag of the final tempo
FineStage(function, found, start_lag, end_lag) ==
    IF found.status = "Err"
    THEN [function |-> function, status |-> "Err"]
    ELSE [function |-> function, status |-> "Ok",
          best_lag_f |-> found.best_lag, max_corr_f |-> found.max_corr,
          start_lag |-> start_lag, end_lag |-> end_lag,
          refined_lag |-> parabolic_interpolation(found.best_lag, found.max_corr,
                                                  args.centered_signal,
                                                  start_lag, end_lag)]

\* the longest quiet part and the longest loud part of a step envelope
MaxPart == 11

\* normalize_window up to a positive factor: the values less their mean
Centre(w) == [i \in 1..Len(w) |-> Len(w) * w[i] - Sum(w)]

\* a rhythm of period Len(p) that gets louder by g after quiet values
StepEnvelope(p, quiet, loud, g) ==
    [i \in 1..(quiet + loud) |->
        p[((i - 1) % Len(p)) + 1] + (IF i > quiet THEN g ELSE 0)]

\* fine windows: the short centred windows, and the centred step envelopes
\* of period 3 and 4
FineWindows ==
    Windows \cup
    { Centre(StepEnvelope(p, quiet, loud, g)) :
          p \in [1..3 -> {0, 1}] \cup [1..4 -> {0, 1}],
          quiet \in (MaxPart - 2)..MaxPart, loud \in (MaxPart - 2)..MaxPart,
          g \in {1, 2} }

\* the calls of the fine scenarios: a coarse lag, a centred fine window, the
\* fine confidence floor of the analyser
FineArgs ==
    { [function |-> f, best_lag_c |-> l, centered_signal |-> v,
       energy |-> EnergySum(v),
       min_confidence |-> IF f = "legacy_fine_stage" THEN 3 ELSE 4] :
          f \in {"fine_stage", "legacy_fine_stage"},
          l \in coarse_min_lag..MaxCoarseLag, v \in FineWindows }

FineInit ==
    /\ args \in FineArgs
    /\ ret = Idle
    /\ AnalyserInit /\ LinkInit /\ ConsumerInit /\ WorkerInit
    /\ version = IF args.function = "legacy_fine_stage" THEN "legacy" ELSE "current"

\* the centre of the fine search
center_lag_f == args.best_lag_c * coarse_step

\* a faulty bound, which starts the fine search at the first lag
FromFirstLag == Min(center_lag_f, 0)

\* the bounds of the fine search before the clamp
min_lag_f == Max(center_lag_f - search_radius, 0)
max_lag_f == center_lag_f + search_radius

\* the bounds after the clamp
FineStart == Max(min_lag_f, 1)
FineEnd == Min(max_lag_f, Max(Len(args.centered_signal) - 1, 0))

CallFineStage ==
    /\ args.function = "fine_stage"
    /\ ret = Idle
    /\ ret' = FineStage("fine_stage",
                        search_correlation(args.centered_signal, args.energy,
                                           min_lag_f, max_lag_f, args.min_confidence),
                        FineStart, FineEnd)
    /\ SearchIdle

CallLegacyFineStage ==
    /\ args.function = "legacy_fine_stage"
    /\ ret = Idle
    /\ ret' = FineStage("legacy_fine_stage",
                        legacy_search(args.centered_signal, args.energy,
                                      min_lag_f, max_lag_f, args.min_confidence),
                        FineStart, FineEnd)
    /\ SearchIdle

NextFine == CallFineStage \/ CallLegacyFineStage

SpecFine == FineInit /\ [][NextFine]_vars

\* the fine stage produced a lag
Refined == ret # Idle /\ ret.status = "Ok"

\* a fraction lies in lo..hi
Within(f, lo, hi) == lo * f.den <= f.num /\ f.num <= hi * f.den

\* C24 (as stated): the fine-stage lag used for the final tempo lies within
\* search_radius samples of best_lag_c * coarse_step, clamped to [1, N - 1]
\* where N is the length of the fine window.
C24_FineLagNearCoarseLag ==
    Refined =>
        Within(ret.refined_lag,
               Max(center_lag_f - search_radius, 1),
               Min(center_lag_f + search_radius, Len(args.centered_signal) - 1))

\* what the code gives: the lag of the fine search is in that range in both
\* analysers, and the refined lag of the legacy analyser too
C24_SearchedLagNearCoarseLag ==
    Refined =>
        /\ ret.best_lag_f >= Max(center_lag_f - search_radius, 1)
        /\ ret.best_lag_f <= Min(center_lag_f + search_radius,
                                 Len(args.centered_signal) - 1)
        /\ args.function = "legacy_fine_stage" => C24_FineLagNearCoarseLag

\* the legacy analyser refined a lag of the search by a fraction of a sample
C24_LegacyRefined ==
    /\ Refined
    /\ ret.function = "legacy_fine_stage"
    /\ ret.refined_lag.den # 1

----------------------------------------------------------------------------
\* The decimation chain on numbers: the batches are consecutive pieces of a
\* ramp of rectified filter outputs 1, 2, 3, ..., so that every value of the
\* chain tells which samples it was made of. Values are fractions num / den.

\* batches fed to one analyser
MaxFeeds == 5

\* the sum of a sequence of fractions
RECURSIVE SumOf(_)
SumOf(chunk) ==
    IF chunk = <<>> THEN [num |-> 0, den |-> 1]
    ELSE LET rest == SumOf(Tail(chunk))
         IN  [num |-> Head(chunk).num * rest.den + rest.num * Head(chunk).den,
              den |-> Head(chunk).den * rest.den]

\* the transforms of update_buffer on numbers: sum / chunk.len()
Average(chunk) ==
    [num |-> SumOf(chunk).num, den |-> SumOf(chunk).den * Len(chunk)]

\* a faulty decimation, which divides the sum of every chunk by step
PaddedAverages(samples, step) ==
    LET c == Chunks(samples, step)
    IN  [k \in 1..Len(c) |->
            [num |-> SumOf(c[k]).num, den |-> SumOf(c[k]).den * step]]

\* output of update_buffer on numbers: one average per chunk
Averages(samples, step) ==
    LET c == Chunks(samples, step) IN [k \in 1..Len(c) |-> Average(c[k])]

\* a faulty push loop, which refuses the new values when the buffer is full
KeepOldest(buffer, capacity, output) ==
    SubSeq(buffer \o output, 1, Min(capacity, Len(buffer) + Len(output)))

\* the push loop of update_buffer and of the legacy analyser
Pushed(buffer, capacity, output) == PushAll(buffer, capacity, output)

\* the state of the chain: the two ring buffers, the outputs of the last
\* batch, and a record of every value produced so far
Chain(function, fine, coarse, produced, coarse_produced, feeds, fed, new_samples, output, coarse_output) ==
    [function |-> function, fine_buffer |-> fine, coarse_buffer |-> coarse,
     fine_produced |-> produced, coarse_produced |-> coarse_produced,
     feeds |-> feeds, total_fed |-> fed, batch |-> new_samples, output |-> output,
     coarse_output |-> coarse_output]

DecimationArgs ==
    { [function |-> "update_buffer", fine_step |-> fine_step,
       fine_capacity |-> FineCapacity, coarse_capacity |-> CoarseCapacity],
      [function |-> "legacy_decimation", fine_step |-> legacy_fine_step,
       fine_capacity |-> LegacyFineCapacity,
       coarse_capacity |-> LegacyCoarseCapacity] }

DecimationInit ==
    /\ args \in DecimationArgs
    /\ ret = Chain("new", <<>>, <<>>, <<>>, <<>>, 0, 0, <<>>, <<>>, <<>>)
    /\ AnalyserInit /\ LinkInit /\ ConsumerInit /\ WorkerInit
    /\ version = IF args.function = "legacy_decimation" THEN "legacy" ELSE "current"

\* the next n values of the ramp
Ramp(n) == [i \in 1..n |-> [num |-> ret.total_fed + i, den |-> 1]]

\* steps 1 and 2 of process: input to fine, fine to coarse
Decimated(new_samples) ==
    LET output == Averages(new_samples, args.fine_step)
        coarse_output == Averages(output, coarse_step)
    IN  Chain(args.function,
              Pushed(ret.fine_buffer, args.fine_capacity, output),
              Pushed(ret.coarse_buffer, args.coarse_capacity, coarse_output),
              ret.fine_produced \o output,
              ret.coarse_produced \o coarse_output,
              ret.feeds + 1, ret.total_fed + Len(new_samples), new_samples,
              output, coarse_output)

FeedCurrent ==
    /\ args.function = "update_buffer"
    /\ ret.feeds < MaxFeeds
    /\ \E n \in 0..MaxBatch : ret' = Decimated(Ramp(n))
    /\ SearchIdle

FeedLegacy ==
    /\ args.function = "legacy_decimation"
    /\ ret.feeds < MaxFeeds
    /\ \E n \in 0..MaxBatch : ret' = Decimated(Ramp(n))
    /\ SearchIdle

NextDecimation == FeedCurrent \/ FeedLegacy

SpecDecimation == DecimationInit /\ [][NextDecimation]_vars

\* two fractions are the same number
Same(a, b) == a.num * b.den = b.num * a.den

\* the group k of a sequence cut in groups of step values
Group(s, k, step) == ((k - 1) * step + 1)..Min(k * step, Len(s))

\* the sum of the samples i..j of the ramp
RampSum(i, j) == (j * (j + 1) - (i - 1) * i) \div 2

\* the value is the mean of the group k of the sequence
MeanOfGroup(value, s, k, step) ==
    LET g == Group(s, k, step)
        first == CHOOSE i \in g : \A j \in g : i <= j
        last == CHOOSE i \in g : \A j \in g : i >= j
    IN  Same(value, [num |-> SumOf(SubSeq(s, first, last)).num,
                     den |-> SumOf(SubSeq(s, first, last)).den * Cardinality(g)])

\* C25: each decimated value of a batch is the mean over an actual group of
\* consecutive samples: full groups of step samples and a final partial group
\* averaged over its actual length; the same holds from the fine values of
\* the batch to its coarse values.
C25_MeansOverActualGroups ==
    /\ Len(ret.output) = (Len(ret.batch) + args.fine_step - 1) \div args.fine_step
    /\ \A k \in 1..Len(ret.output) :
           LET g == Group(ret.batch, k, args.fine_step)
           IN  ret.output[k].num * Cardinality(g) =
                   ret.output[k].den *
                       RampSum(ret.total_fed - Len(ret.batch) + (k - 1) * args.fine_step + 1,
                               ret.total_fed - Len(ret.batch) + (k - 1) * args.fine_step
                                   + Cardinality(g))
    /\ Len(ret.coarse_output) = (Len(ret.output) + coarse_step - 1) \div coarse_step
    /\ \A k \in 1..Len(ret.coarse_output) :
           MeanOfGroup(ret.coarse_output[k], ret.output, k, coarse_step)

\* C25 witness: a later batch whose last fine group and last coarse group
\* are both incomplete
C25_Witness ==
    /\ ret.feeds > 1
    /\ Len(ret.batch) % args.fine_step # 0
    /\ Len(ret.output) % coarse_step # 0

\* the last n values of a sequence
LastOf(s, n) == SubSeq(s, Len(s) - n + 1, Len(s))

\* C26: each ring buffer contains exactly the most recent
\* min(capacity, produced) decimated values, in the order they were produced,
\* across batch boundaries.
C26_BuffersHoldMostRecentInOrder ==
    /\ ret.fine_buffer =
           LastOf(ret.fine_produced, Min(args.fine_capacity, Len(ret.fine_produced)))
    /\ ret.coarse_buffer =
           LastOf(ret.coarse_produced,
                  Min(args.coarse_capacity, Len(ret.coarse_produced)))

\* C26 witness: both buffers have dropped values, the fine buffer in the
\* middle of a batch
C26_Witness ==
    /\ Len(ret.fine_produced) > args.fine_capacity
    /\ Len(ret.coarse_produced) > args.coarse_capacity
    /\ Len(ret.output) > 1
    /\ Len(ret.fine_produced) - Len(ret.output) < args.fine_capacity

----------------------------------------------------------------------------
\* Drop detection, called on its own: the peak-normalised fine window in
\* tenths (squares in hundredths), the fine confidence in tenths.

\* length of the fine window of the drop scenarios
DropWindow == 4

\* values of a peak-normalised window: 0, 0.1, 0.3 and the peak 1.0
Levels == {0, 1, 3, 10}

\* windows as normalize_window leaves them: the largest value is 1.0
DropWindows == { w \in [1..DropWindow -> Levels] : \E i \in 1..DropWindow : w[i] = 10 }

\* sum of the squares of the samples from..to
SumSq(samples, from, to) ==
    Sum([i \in 1..(to - from + 1) |-> samples[from + i - 1] * samples[from + i - 1]])

\* (current_energy > history_energy * num / den) && (current_energy > floor),
\* the floor in hundredths
Detection(samples, split_index, num, den, floor) ==
    LET history_sum_sq == SumSq(samples, 1, split_index)
        history_count == Max(split_index, 1)
        recent_sum_sq == SumSq(samples, split_index + 1, Len(samples))
        recent_count == Max(Len(samples) - split_index, 1)
    IN  /\ den * recent_sum_sq * history_count > num * history_sum_sq * recent_count
        /\ recent_sum_sq > floor * recent_count

\* BpmAnalyzer::check_drop with the threshold Some(1.4) of process
check_drop(samples) == Detection(samples, Len(samples) \div 2, 14, 10, 4)

\* is_drop of the current analyser: confidence > 0.6 && check_drop
current_is_drop(samples, confidence) == confidence > 6 /\ check_drop(samples)

\* is_drop of the legacy analyser
legacy_is_drop(samples, confidence) ==
    Detection(samples, (Len(samples) * 3) \div 4, 12, 10, 1)

DropArgs ==
    { [function |-> f, fine_vec |-> w, confidence |-> c] :
          f \in {"check_drop", "legacy_drop"}, w \in DropWindows, c \in 4..7 }

DropInit ==
    /\ args \in DropArgs
    /\ ret = Idle
    /\ AnalyserInit /\ LinkInit /\ ConsumerInit /\ WorkerInit
    /\ version = IF args.function = "legacy_drop" THEN "legacy" ELSE "current"

CallCheckDrop ==
    /\ args.function = "check_drop"
    /\ ret = Idle
    /\ ret' = [function |-> "check_drop",
               is_drop |-> current_is_drop(args.fine_vec, args.confidence)]
    /\ SearchIdle

CallLegacyDrop ==
    /\ args.function = "legacy_drop"
    /\ ret = Idle
    /\ ret' = [function |-> "legacy_drop",
               is_drop |-> legacy_is_drop(args.fine_vec, args.confidence)]
    /\ SearchIdle

NextDrop == CallCheckDrop \/ CallLegacyDrop

SpecDrop == DropInit /\ [][NextDrop]_vars

\* the drop of the statement: split at 3N/4, E_recent > 1.5 E_hist,
\* E_recent > 0.01, fine confidence > 0.5
StatedDrop ==
    /\ Detection(args.fine_vec, (3 * Len(args.fine_vec)) \div 4, 15, 10, 1)
    /\ args.confidence > 5

\* C27 (as stated): on the peak-normalised fine window of length N split at
\* k = 3N/4, is_drop is true if and only if E_recent > 1.5 E_hist and
\* E_recent > 0.01 and the fine confidence exceeds 0.5.
C27_DropIffStated == Returned => (ret.is_drop <=> StatedDrop)

\* what the code gives: the legacy analyser, with its lower ratio and no
\* test of the confidence, declares every drop of the statement
C27_LegacyDropWhenStated ==
    (Returned /\ args.function = "legacy_drop" /\ StatedDrop) => ret.is_drop

----------------------------------------------------------------------------
\* The gate scenarios of the legacy analyser: the estimates of the smoothing
\* scenarios on full batches of sound, and idle times of the silence limit

\* calls before the idle time
GateCalls == 6

GateInit == Init /\ version = "legacy"

NextGate ==
    \/ \E b \in SmoothFrames, o \in LegacySmoothOracles :
           /\ clock < GateCalls \/ clock >= SilenceLimit
           /\ legacy_process(b, o)
           /\ UNCHANGED others
    \/ Wait(SilenceLimit) /\ UNCHANGED others

SpecGate == GateInit /\ [][NextGate]_vars

\* the call of this step reaches the smoother of the legacy analyser with the
\* estimate o
SmootherCall(o) ==
    /\ o.stage = "estimate"
    /\ returned_at' \in {"smoother", "end"}
    /\ \E b \in SmoothFrames : legacy_process(b, o)

\* the call of this step finds the analyser idle for more than the silence
\* limit, or new
AfterSilence == clock + 1 - last_detection_time > SilenceLimit \/ history = <<>>

\* C28: the adaptive gate rejects a batch only when the history is non-empty
\* and energy_mean < 0.9 mean(history.energy) and energy_mean < 0.03; a batch
\* it rejects leaves the reference and the history unchanged even if it is a
\* drop; the first estimate after construction or after a silence reset is
\* never rejected by it.
C28_GateRejectsOnlyQuietAfterHistory ==
    [][\A o \in LegacySmoothOracles :
          SmootherCall(o) =>
              /\ Gated(o.est.energy) =>
                     /\ returned_at' = "smoother"
                     /\ reference_bpm' = reference_bpm
                     /\ history' = history
                     /\ history # <<>>
                     /\ ~AfterSilence
              /\ (o.est.is_drop /\ ~Gated(o.est.energy)) => returned_at' = "end"
              /\ (o.est.is_drop /\ AfterSilence) => returned_at' = "end"]_vars

\* C28 witness: the gate has just rejected a quiet drop, the reference and
\* the history are those of the louder estimates before it
C28_Witness ==
    /\ version = "legacy"
    /\ returned_at = "smoother"
    /\ reference_bpm = 1200
    /\ Len(history) > 1

\* a quiet drop arrives first after a silence reset and is accepted
C28_QuietDropAfterSilence ==
    /\ version = "legacy"
    /\ returned_at = "end"
    /\ Len(history) = 1
    /\ history[1].energy = 20
    /\ history[1].timestamp > SilenceLimit

\* C29 (as stated): no value reported after a silence reset comes from
\* before the reset: while no estimate has been accepted since the reset, a
\* result for a rejected batch carries no average energy of the estimates
\* accepted before it.
C29_NothingStaleAfterReset ==
    [][\A o \in LegacySmoothOracles :
          (SmootherCall(o) /\ AfterSilence) =>
              IF returned_at' = "end"
              THEN /\ result'.bpm = o.est.bpm
                   /\ result'.average_energy = 60 * o.est.energy
              ELSE result'.average_energy = 0]_vars

\* what the code gives: the smoothed values of an accepted estimate come from
\* the estimates accepted after the reset only
C29_AcceptedValuesAreFresh ==
    [][\A o \in LegacySmoothOracles :
          (SmootherCall(o) /\ AfterSilence /\ returned_at' = "end") =>
              /\ result'.bpm = o.est.bpm
              /\ result'.average_energy = 60 * o.est.energy
              /\ reference_bpm' = o.est.bpm]_vars

----------------------------------------------------------------------------
\* The tempo range of the fine stage. SamplingConfig::new turns the tempo
\* range into lags at each rate; fine_rate is coarse_rate * coarse_step, so
\* the fine lags of the range are at least coarse_step * min_lag and at most
\* coarse_step * max_lag + coarse_step - 1 of the coarse configuration.

\* (fine_rate * 60 / max_bpm) as usize, at its smallest
fine_min_lag == coarse_step * coarse_min_lag

\* (fine_rate * 60 / min_bpm) as usize, at its largest
fine_max_lag == coarse_step * MaxCoarseLag + coarse_step - 1

Interior == ret.best_lag_f > ret.start_lag /\ ret.best_lag_f < ret.end_lag

\* C32 (as stated): when parabolic refinement is applied the refined lag
\* differs from the integer peak lag by at most half a sample; when the peak
\* is at a boundary of the search range or the denominator is zero the
\* refined lag equals the integer lag.
C32_RefinedWithinHalfSample ==
    Refined =>
        /\ Within([num |-> 2 * ret.refined_lag.num, den |-> ret.refined_lag.den],
                  2 * ret.best_lag_f - 1, 2 * ret.best_lag_f + 1)
        /\ ~Interior => ret.refined_lag = Fraction(ret.best_lag_f, 1)

\* what the code gives: the legacy analyser, which fits the raw correlation
\* of the peak, stays within half a sample; both analysers leave a peak at a
\* boundary unchanged
C32_LegacyWithinHalfSample ==
    Refined =>
        /\ args.function = "legacy_fine_stage" => C32_RefinedWithinHalfSample
        /\ ~Interior => ret.refined_lag = Fraction(ret.best_lag_f, 1)

\* the legacy analyser moved a peak by a fraction of a sample
C32_LegacyMoved ==
    /\ Refined
    /\ args.function = "legacy_fine_stage"
    /\ Interior
    /\ ret.refined_lag.num # ret.best_lag_f * ret.refined_lag.den

----------------------------------------------------------------------------
\* The buffer updates and the gates (checked under Spec)

\* the newest capacity values of a sequence
Newest(s, capacity) ==
    IF Len(s) <= capacity THEN s ELSE SubSeq(s, Len(s) - capacity + 1, Len(s))

\* the buffers and the filter state that the batch b alone determines
FollowsBatch(b) ==
    LET fine == Decimate(Rectified(input_filter, b), FineStep)
    IN  /\ input_filter' = FilterAfter(input_filter, b)
        /\ fine_buffer' = Newest(fine_buffer \o fine, FineCap)
        /\ coarse_buffer' = Newest(coarse_buffer \o Decimate(fine, coarse_step), CoarseCap)
        /\ raw_buffer' = Newest(raw_buffer \o Decimate(b, FineStep), RawCap)

\* C33: every call of process appends the decimated values of its batch to the
\* fine, coarse and raw buffers and advances the filter, whatever it returns and
\* wherever it returns; a call that returns no estimate adds no history entry
\* and sets no reference.
C33_BuffersUpdatedBeforeGates ==
    [][CallStep =>
          /\ \E b \in Frames : FollowsBatch(b)
          /\ returned_at' # "end" =>
                 /\ history' \in {history, <<>>}
                 /\ reference_bpm' \in {reference_bpm, 0}]_vars

\* C33 witness: the current analyser was fed a silent batch and then a sounding
\* one; the second call was rejected by the cross-validation and the raw
\* buffer holds the values of both batches
C33_Witness ==
    /\ version = "current"
    /\ returned_at = "smoother"
    /\ result = None
    /\ history = <<>>
    /\ raw_buffer = <<Zero, Zero, NonZero, NonZero>>
    /\ Len(coarse_buffer) = CoarseCapacity

----------------------------------------------------------------------------
\* The analyser and the LinkManager together: the embedder hands every
\* estimate to update_tempo. The clock counts seconds, as in the smoother
\* scenarios, and the beat offset is shorter than one second.

BroadcastInit == Init /\ version = "current"

\* link_manager.update_tempo(result.bpm as f64, result.is_drop,
\* result.beat_offset) at the reading now; tempi of the result are in tenths,
\* those of the session in hundredths
Published(res, now) ==
    LET bpm == 10 * res.bpm
        synced == /\ res.beat_offset = "Some"
                  /\ res.is_drop
                  /\ now - last_sync_time > Cooldown
    IN  /\ tempo' = IF MicroUpdate(tempo, bpm) THEN bpm ELSE tempo
        /\ IF synced
           THEN /\ downbeat' = [requested |-> TRUE, beat |-> 0, time |-> now,
                                quantum |-> 4]
                /\ last_sync_time' = now
           ELSE UNCHANGED <<downbeat, last_sync_time>>

\* the embedder's handling of a full batch: process, then update_tempo when
\* process returned an estimate
Broadcast(b, o) ==
    /\ process(b, o)
    /\ IF returned_at' = "end"
       THEN Published(result', clock')
       ELSE UNCHANGED link_vars
    /\ UNCHANGED <<function_vars, consumer_vars, worker_vars>>

NextBroadcast ==
    \/ \E b \in Frames, o \in Oracles : Broadcast(b, o)
    \/ \E d \in Gaps : Wait(d) /\ UNCHANGED others

SpecBroadcast == BroadcastInit /\ [][NextBroadcast]_vars

\* C34: every result of the analyser carries a beat offset exactly when it is
\* a drop, and the downbeat of the session is realigned only by a call that
\* returned a drop result.
C34_BeatOffsetIffDrop ==
    /\ [](returned_at = "end" => (result.beat_offset = "Some" <=> result.is_drop))
    /\ [][(downbeat' # downbeat \/ last_sync_time' # last_sync_time) =>
             (CallStep /\ returned_at' = "end" /\ result'.is_drop)]_vars

\* C34 witness: a drop result with its beat offset has just realigned the
\* downbeat
C34_Witness ==
    /\ returned_at = "end"
    /\ result.is_drop
    /\ result.beat_offset = "Some"
    /\ downbeat.requested
    /\ downbeat.time = clock

\* a result that is no drop came after the cooldown and realigned nothing
C34_NonDropIgnored ==
    /\ returned_at = "end"
    /\ ~result.is_drop
    /\ result.beat_offset = "None"
    /\ clock - last_sync_time > Cooldown
    /\ ~downbeat.requested

----------------------------------------------------------------------------
\* The cross-validation of the current analyser: estimates at the edges of
\* the windows around the multiples of what aubio reports, batches of a whole
\* hop and batches shorter than one hop

\* calls of process in these scenarios
CrossCalls == 4

\* raw estimates in tenths of a BPM: around 100 - 15 and 100 + 5, 250, 300
CrossBpms == {849, 850, 1050, 1051, 2500, 3000}

\* what aubio reports after a whole hop: nothing, 50 BPM, 100 BPM
CrossTempi == {0, 500, 1000}

CrossOracles ==
    [stage : {"fine"}]
    \cup { [stage |-> "estimate", aubio_bpm |-> t,
            est |-> [bpm |-> v, confidence |-> 7, energy_rise |-> FALSE]] :
           v \in CrossBpms, t \in CrossTempi }

\* a sounding batch of a whole hop, and one shorter than aubio_hop_s
CrossBatches == {[i \in 1..MaxBatch |-> NonZero], [i \in 1..(aubio_hop_s - 1) |-> NonZero]}

CrossInit == Init /\ version = "current"

\* a call of process; args keeps the batch and what the two trackers found
CrossValidate(b, o) ==
    /\ clock < CrossCalls
    /\ process(b, o)
    /\ args' = [function |-> "process", new_samples |-> b,
                bpm |-> IF o.stage = "estimate" THEN o.est.bpm ELSE 0,
                tempo |-> IF o.stage = "estimate" THEN o.aubio_bpm ELSE 0]
    /\ UNCHANGED <<ret, link_vars, consumer_vars, worker_vars>>

NextCross == \E b \in CrossBatches, o \in CrossOracles : CrossValidate(b, o)

SpecCross == CrossInit /\ [][NextCross]_vars

\* the secondary tracker was fed at least one hop and reports a tempo
Reported(a) == Len(a.new_samples) >= aubio_hop_s /\ a.tempo # 0

\* bpm in [m * T - 15, m * T + 5] for some m in 1..5
NearMultiple(bpm, T) ==
    \E m \in 1..5 : m * T - bpm <= 150 /\ bpm - m * T <= 50

\* C35: an estimate that reaches the cross-validation is accepted exactly
\* when the secondary tracker reports nothing (also for a batch shorter than
\* one hop) or reports a tempo T with bpm in [m * T - 15, m * T + 5] for some m
\* in 1..5; a rejected call returns no estimate and pushes nothing to the
\* history, an accepted one pushes its estimate.
C35_CrossValidation ==
    [][(CallStep /\ returned_at' \in {"smoother", "end"}) =>
          /\ returned_at' = "end" <=>
                 (Reported(args') => NearMultiple(args'.bpm, args'.tempo))
          /\ returned_at' = "smoother" =>
                 (result' = None /\ history' \in {history, <<>>})
          /\ returned_at' = "end" =>
                 (history' # <<>> /\ Latest(history').bpm = args'.bpm
                                  /\ Latest(history').timestamp = clock')]_vars

\* C35 witness: aubio reported 50 BPM and the estimate of 300 BPM, next to
\* the sixth multiple, was rejected after an estimate had been accepted
C35_Witness ==
    /\ args.function = "process"
    /\ Reported(args)
    /\ args.tempo = 500
    /\ args.bpm = 3000
    /\ returned_at = "smoother"
    /\ result = None
    /\ history # <<>>

\* an estimate outside every window was accepted with a batch shorter than
\* one hop, although aubio would have reported a tempo
C35_ShortBatchAccepted ==
    /\ args.function = "process"
    /\ Len(args.new_samples) < aubio_hop_s
    /\ args.tempo = 1000
    /\ args.bpm = 1051
    /\ returned_at = "end"
    /\ Latest(history).bpm = 1051

\* an estimate at the lower edge of the fifth window was accepted
C35_FifthMultiple ==
    /\ args.function = "process"
    /\ Reported(args)
    /\ args.tempo = 500
    /\ args.bpm = 2500
    /\ returned_at = "end"

----------------------------------------------------------------------------
\* The capture worker (AudioWorker::run), its control channel, the streams it
\* starts and the AudioCapture that owns it. In these scenarios the clock
\* counts steps of 100 ms, the sleep of the retry loop. A stream is the number
\* of its Reset message; a packet holds the number of the stream that
\* captured it.

\* PolicyAudioRestart of the scenarios: failures remembered, window and retry
\* delay in steps
max_restarts == 2
time_window == 3
retry_delay == 1

\* failures in all: stream errors sent and initialisation failures
MaxFailures == 3
\* the time that passes on its own stops at this reading
MaxWorkerClock == 3
\* worker threads spawned by AudioCapture::new and set_device
MaxWorkers == 2
\* the streams stop sending packets while the data channel holds more
\* messages than this
MaxPending == 0

\* a faulty record, which never drops its oldest entry
RecordedAll(crash_timestamps, now) == Append(crash_timestamps, now)

\* should_stop_restarting: the record after pop_front when full and push_back
Recorded(crash_timestamps, now) ==
    Append(IF Len(crash_timestamps) >= max_restarts /\ crash_timestamps # <<>>
           THEN Tail(crash_timestamps) ELSE crash_timestamps,
           now)

\* should_stop_restarting: the value returned
should_stop_restarting(crash_timestamps, now) ==
    LET ts == Recorded(crash_timestamps, now)
    IN  /\ Len(ts) = max_restarts
        /\ Latest(ts) - ts[1] < time_window

\* the worker after a failure at the reading now, going on at the position pc
\* when should_stop_restarting returns false
AfterFailure(w, now, pc) ==
    [w EXCEPT !.error_count = @ + 1,
              !.crash_timestamps = Recorded(@, now),
              !.failures = Append(@, now),
              !.pc = IF should_stop_restarting(w.crash_timestamps, now)
                     THEN "exited" ELSE pc,
              !.steps = IF should_stop_restarting(w.crash_timestamps, now) \/ pc # "retry"
                        THEN 0 ELSE retry_delay,
              !.live = IF should_stop_restarting(w.crash_timestamps, now)
                       THEN {} ELSE @]

\* create_execution_stream: Reset, then the rate, for the stream numbered n
Announced(n, rate) ==
    <<[type |-> "Reset", stream |-> n],
      [type |-> "SampleRateChanged", rate |-> rate, stream |-> n]>>

\* the consumer's state apart from its channel and the count of streams
ConsumerRest == <<new_samples_accumulator, analyzer_rate, stream_rate, resets, batch,
                  current_hop_size, analysis_enabled, discarded>>

\* a faulty restart, which leaves the callbacks of the old stream running
KeptAlive(live, n) == live

\* drop(stream): the callbacks of the stream run no more
Dropped(live, n) == live \ {n}

\* initialize_stream returns Ok(stream): the stream is announced and plays
InitializeOk ==
    /\ worker.pc = "initialize"
    /\ streams' = streams + 1
    /\ queue' = queue \o Announced(streams + 1, TARGET_SAMPLE_RATE)
    /\ worker' = [worker EXCEPT !.pc = "running", !.live = @ \cup {streams + 1}]
    /\ UNCHANGED <<clock, control, capture, ConsumerRest>>

\* initialize_stream returns Err, before create_execution_stream (no device,
\* no configuration) or in it, after the stream was announced
InitializeErr(announced) ==
    /\ worker.pc = "initialize"
    /\ capture.failures < MaxFailures
    /\ capture' = [capture EXCEPT !.failures = @ + 1]
    /\ IF announced
       THEN /\ streams' = streams + 1
            /\ queue' = queue \o Announced(streams + 1, TARGET_SAMPLE_RATE)
       ELSE UNCHANGED <<streams, queue>>
    /\ worker' = AfterFailure(worker, clock,
                              IF retry_delay = 0 THEN "initialize" ELSE "retry")
    /\ UNCHANGED <<clock, control, ConsumerRest>>

\* a faulty retry loop, which takes the Stop message like any other
Overlooked(message) == FALSE

\* if let Ok(ControlMessage::Stop) = self.control_receiver.try_recv()
IsStop(message) == message = "Stop"

\* one turn of the retry loop: thread::sleep(step), then try_recv, which
\* takes the next control message and returns from run when it is Stop
RetryStep ==
    /\ worker.pc = "retry"
    /\ clock' = clock + 1
    /\ control' = IF control = <<>> THEN control ELSE Tail(control)
    /\ worker' = IF control # <<>> /\ IsStop(Head(control))
                 THEN [worker EXCEPT !.pc = "exited", !.steps = 0]
                 ELSE [worker EXCEPT !.steps = @ - 1,
                                     !.pc = IF worker.steps = 1 THEN "initialize"
                                            ELSE "retry"]
    /\ UNCHANGED <<capture, consumer_vars>>

\* control_receiver.recv() returns Stop: break, the stream goes with the loop
RecvStop ==
    /\ worker.pc = "running"
    /\ control # <<>>
    /\ Head(control) = "Stop"
    /\ control' = Tail(control)
    /\ worker' = [worker EXCEPT !.pc = "exited", !.live = {}]
    /\ UNCHANGED <<clock, capture, consumer_vars>>

\* control_receiver.recv() returns Error: stop restarting, or drop the stream
\* and initialise the next
RecvError ==
    /\ worker.pc = "running"
    /\ control # <<>>
    /\ Head(control) = "Error"
    /\ control' = Tail(control)
    /\ LET after == AfterFailure(worker, clock, "initialize")
       IN  worker' = IF after.pc = "exited" THEN after
                     ELSE [after EXCEPT !.live = Dropped(@, streams)]
    /\ UNCHANGED <<clock, capture, consumer_vars>>

\* err_fn of a stream that runs: control_sender.send(ControlMessage::Error)
StreamError ==
    /\ worker.live # {}
    /\ capture.failures < MaxFailures
    /\ capture' = [capture EXCEPT !.failures = @ + 1]
    /\ control' = Append(control, "Error")
    /\ UNCHANGED <<clock, worker, consumer_vars>>

\* the input callback of a stream that runs: sender.send(Samples(buffer))
StreamSamples(n) ==
    /\ n \in worker.live
    /\ Len(queue) <= MaxPending
    /\ queue' = Append(queue, [type |-> "Samples", packet |-> <<n>>])
    /\ UNCHANGED <<clock, worker_vars, streams, ConsumerRest>>

\* 100 ms pass
WorkerTick ==
    /\ clock < MaxWorkerClock
    /\ clock' = clock + 1
    /\ UNCHANGED <<worker_vars, consumer_vars>>

\* set_device and drop up to the join: control_sender.send(Stop), which
\* fails when the worker has returned and dropped its receiver
SendStop(caller) ==
    /\ capture.pc = "running"
    /\ caller = "set_device" => capture.workers < MaxWorkers
    /\ control' = IF worker.pc = "exited" THEN control ELSE Append(control, "Stop")
    /\ capture' = [capture EXCEPT !.pc = caller]
    /\ UNCHANGED <<clock, worker, consumer_vars>>

\* handle.join() returns: the worker thread has returned from run. set_device
\* goes on to spawn a worker with a new control channel
Join ==
    /\ capture.pc \in {"set_device", "drop"}
    /\ worker.pc = "exited"
    /\ IF capture.pc = "set_device"
       THEN /\ control' = <<>>
            /\ worker' = NewWorker
            /\ capture' = [capture EXCEPT !.pc = "running", !.workers = @ + 1]
       ELSE /\ capture' = [capture EXCEPT !.pc = "dropped"]
            /\ UNCHANGED <<control, worker>>
    /\ UNCHANGED <<clock, consumer_vars>>

\* the steps of the worker thread
WorkerStep ==
    \/ InitializeOk
    \/ \E announced \in BOOLEAN : InitializeErr(announced)
    \/ RetryStep
    \/ RecvStop
    \/ RecvError

\* the rest of the state in the worker scenarios
WorkerIdle == UNCHANGED <<analyser_vars, function_vars, link_vars>>

\* the worker, its streams, its owner and the consumer
NextWorker ==
    \/ WorkerStep /\ WorkerIdle
    \/ StreamError /\ WorkerIdle
    \/ \E n \in 1..streams : StreamSamples(n) /\ WorkerIdle
    \/ \E caller \in {"set_device", "drop"} : SendStop(caller) /\ WorkerIdle
    \/ Join /\ WorkerIdle
    \/ ReceiveSamples /\ ConsumerIdle
    \/ ReceiveReset /\ ConsumerIdle
    \/ ReceiveSampleRateChanged /\ ConsumerIdle

\* the embedder once the analysis has been enabled, its capture just created
ListeningInit ==
    /\ AnalyserInit /\ version = "current"
    /\ FunctionInit /\ LinkInit /\ WorkerInit
    /\ queue = <<>>
    /\ new_samples_accumulator = <<>>
    /\ analyzer_rate = TARGET_SAMPLE_RATE
    /\ stream_rate = TARGET_SAMPLE_RATE
    /\ resets = 0
    /\ batch = NoBatch
    /\ current_hop_size = TARGET_SAMPLE_RATE \div 2
    /\ analysis_enabled = TRUE
    /\ streams = 0
    /\ discarded = FALSE

SpecWorker == ListeningInit /\ [][NextWorker]_vars

\* the worker alone with its streams' errors, while time passes
NextRestart ==
    \/ InitializeOk /\ WorkerIdle
    \/ \E announced \in BOOLEAN : InitializeErr(announced) /\ WorkerIdle
    \/ RetryStep /\ WorkerIdle
    \/ RecvError /\ WorkerIdle
    \/ StreamError /\ WorkerIdle
    \/ WorkerTick /\ WorkerIdle

SpecRestart == ListeningInit /\ [][NextRestart]_vars

----------------------------------------------------------------------------
\* Properties of the capture worker (checked under SpecWorker)

\* every sample of the packet was captured by the stream n or a later one
NotBefore(packet, n) == \A i \in 1..Len(packet) : packet[i] >= n

\* in the data channel every Reset is followed by the rate of its stream, and
\* no Samples of an earlier stream follow it
QueueOrdered ==
    \A p \in 1..Len(queue) :
        queue[p].type = "Reset" =>
            /\ p < Len(queue)
            /\ queue[p + 1].type = "SampleRateChanged"
            /\ queue[p + 1].stream = queue[p].stream
            /\ \A q \in (p + 1)..Len(queue) :
                   queue[q].type = "Samples" => NotBefore(queue[q].packet, queue[p].stream)

\* the step sends a packet on the data channel
SamplesSent ==
    /\ Len(queue') = Len(queue) + 1
    /\ Latest(queue').type = "Samples"

\* the step is the consumer's receipt of a packet
SamplesReceived ==
    /\ queue # <<>>
    /\ queue' = Tail(queue)
    /\ Head(queue).type = "Samples"

\* C36: a stream sends Samples only after its Reset and its rate, and while
\* no later stream has been announced: at most the latest stream runs, none
\* while the next is initialised, every packet sent comes from the latest
\* stream announced, and every packet the consumer receives comes from the
\* stream of the last Reset it received (the k-th Reset announces stream k).
C36_NoSamplesOfEarlierStream ==
    /\ [](/\ QueueOrdered
          /\ worker.live \subseteq {streams}
          /\ worker.pc # "running" => worker.live = {})
    /\ [][/\ SamplesSent => Latest(queue').packet = <<streams>>
          /\ SamplesReceived => Head(queue).packet = <<resets>>]_vars

\* C36 witness: the Reset of the second stream found samples of the first in
\* the accumulator, and the consumer has since received a packet of the second
C36_Witness ==
    /\ streams >= 2
    /\ resets = 2
    /\ discarded
    /\ new_samples_accumulator = <<2>>

----------------------------------------------------------------------------
\* The restart policy (checked under SpecRestart, where the worker returns
\* from run only by giving up)

\* the last n entries of a sequence, all of them when it has fewer
LastEntries(s, n) == IF Len(s) <= n THEN s ELSE SubSeq(s, Len(s) - n + 1, Len(s))

\* the max_restarts most recent failures all occurred within time_window
RecentBurst(failures) ==
    /\ Len(failures) >= max_restarts
    /\ Latest(failures) - failures[Len(failures) - max_restarts + 1] < time_window

C37_ErrorDiscarded ==
    /\ worker.pc # "exited"
    /\ control = <<>>
    /\ capture.failures > Len(worker.failures)

----------------------------------------------------------------------------
\* Stopping the worker: the worker, the errors of its streams and its owner,
\* while time passes. The worker thread is scheduled whenever it can take a
\* step, and so is the owner when its join can return.

NextStop ==
    \/ InitializeOk /\ WorkerIdle
    \/ \E announced \in BOOLEAN : InitializeErr(announced) /\ WorkerIdle
    \/ RetryStep /\ WorkerIdle
    \/ RecvStop /\ WorkerIdle
    \/ RecvError /\ WorkerIdle
    \/ StreamError /\ WorkerIdle
    \/ WorkerTick /\ WorkerIdle
    \/ \E caller \in {"set_device", "drop"} : SendStop(caller) /\ WorkerIdle
    \/ Join /\ WorkerIdle

SpecStop ==
    /\ ListeningInit
    /\ [][NextStop]_vars
    /\ WF_vars(WorkerStep /\ WorkerIdle)
    /\ WF_vars(Join /\ WorkerIdle)

\* set_device or drop has sent Stop and waits in handle.join()
Joining == capture.pc \in {"set_device", "drop"}

\* C38: whenever set_device or drop has sent Stop and joins the worker, the
\* worker thread returns from run and the join returns, wherever the worker
\* was: waiting on a running stream, initialising, in the retry loop, or with
\* Error messages ahead of the Stop in the control channel.
C38_JoinReturns ==
    /\ Joining ~> ~Joining
    /\ (Joining /\ worker.pc # "exited") ~> worker.pc = "exited"

\* C38 witness: the worker was in the retry loop with an Error message ahead
\* of the Stop when drop began to join it
C38_Witness ==
    /\ capture.pc = "drop"
    /\ worker.pc = "retry"
    /\ control = <<"Error", "Stop">>

\* the join of drop has returned from a worker that Stop ended, not the
\* restart policy
C38_StoppedAfterFailures ==
    /\ capture.pc = "dropped"
    /\ worker.pc = "exited"
    /\ worker.failures # <<>>
    /\ ~RecentBurst(worker.failures)

====
